---- MODULE Spec2Model ----
(***************************************************************************)
(* A model of the MCI orchestrator of cb-tumblebug: the create path        *)
(* (CreateMciDynamic -> CreateMci -> CreateVm), status reconciliation      *)
(* (FetchVmStatus, GetMcisStatus) and the delete path (DelMcis,            *)
(* DelMcisVm), over the key-value store and the CSP client.                *)
(*                                                                         *)
(* Environment: key-value store operations succeed; calls to the CSP       *)
(* client (connection lookup, resource creation and deletion, POST /vm,    *)
(* GET /vmstatus) may fail or answer with an empty status.                 *)
(***************************************************************************)
EXTENDS Integers, Sequences, FiniteSets, TLC

(* ------------------------------ bounds -------------------------------- *)

\* number of sub-group requests in one create request
MaxSubGroups == 2
\* number of VMs that one create request asks for
MaxVms == 2

(* ------------------------- names of the source ------------------------ *)

StatusPreparing == "Preparing"
StatusPrepared == "Prepared"
StatusCreating == "Creating"
StatusRunning == "Running"
StatusSuspending == "Suspending"
StatusSuspended == "Suspended"
StatusResuming == "Resuming"
StatusRebooting == "Rebooting"
StatusTerminating == "Terminating"
StatusTerminated == "Terminated"
StatusFailed == "Failed"
StatusUndefined == "Undefined"
StatusComplete == "Complete"

ActionCreate == "Create"
ActionTerminate == "Terminate"
ActionResume == "Resume"
ActionReboot == "Reboot"
ActionComplete == "Complete"

PolicyContinue == "continue"
PolicyRollback == "rollback"
PolicyRefine == "refine"

StrImage == "image"
StrSSHKey == "sshKey"
StrVNet == "vNet"
StrSecurityGroup == "securityGroup"
StrDataDisk == "dataDisk"

\* the statuses a GET /vmstatus answer is allowed to carry through
validStatuses ==
    {StatusCreating, StatusRunning, StatusSuspending, StatusSuspended,
     StatusResuming, StatusRebooting, StatusTerminating, StatusTerminated}

\* the order of the counters of GetMcisStatus
statusFlagStr ==
    <<StatusFailed, StatusSuspended, StatusRunning, StatusTerminated,
      StatusCreating, StatusSuspending, StatusResuming, StatusRebooting,
      StatusTerminating, StatusUndefined>>

(* ------------------------------ helpers ------------------------------- *)

\* strings.Contains
Contains(s, sub) ==
    \E i \in 1..(Len(s) - Len(sub) + 1) : SubSeq(s, i, i + Len(sub) - 1) = sub

\* strconv.Atoi on the sub-group sizes of the requests; err is its error
Atoi(s) ==
    CASE s = "-1" -> [n |-> 0 - 1, err |-> FALSE]
      [] s = "0" -> [n |-> 0, err |-> FALSE]
      [] s = "1" -> [n |-> 1, err |-> FALSE]
      [] s = "2" -> [n |-> 2, err |-> FALSE]
      [] s = "3" -> [n |-> 3, err |-> FALSE]
      [] s = "4" -> [n |-> 4, err |-> FALSE]
      [] OTHER -> [n |-> 0, err |-> TRUE]

\* kvstore.Put and kvstore.Delete on a map of records
Put(f, k, x) == [y \in (DOMAIN f) \cup {k} |-> IF y = k THEN x ELSE f[y]]

Delete(f, k) == [y \in (DOMAIN f) \ {k} |-> f[y]]

\* the elements of a sequence
Range(s) == {s[i] : i \in DOMAIN s}

\* the name of the i-th VM of a sub-group
VmName(name, i) == name \o "-" \o ToString(i)

(* ------------------------- key-value records -------------------------- *)

\* the value of an absent MCI key
NoMci == [exists |-> FALSE, status |-> "", targetStatus |-> "", targetAction |-> ""]

\* UpdateMcisInfo: no key, no update
UpdateMcisInfo(m, mcisInfoData) == IF m.exists THEN mcisInfoData ELSE m

\* UpdateVmInfo: no key, no update
UpdateVmInfo(vms, id, vmInfoData) ==
    IF id \in DOMAIN vms THEN Put(vms, id, vmInfoData) ELSE vms

\* ListVmId and ListSubGroupId: the keys below the MCI key
ListVmId(k) == DOMAIN k.vm

ListSubGroupId(k) == k.subgroup

(* ----------------------- status reconciliation ------------------------ *)

\* The request loop of FetchVmStatus: replies holds what GET /vmstatus
\* answers to the first and to the second request ("error" for a failed
\* call, "" for an empty status).
VmStatusRequest(replies) ==
    IF replies[1] = "error" THEN StatusUndefined
    ELSE IF replies[1] # "" THEN replies[1]
    ELSE IF replies[2] = "error" THEN StatusUndefined
    ELSE replies[2]

\* the CSP is asked only for a VM with a CSP id that is not Terminated
CallResult(temp, replies) ==
    IF temp.status # StatusTerminated /\ temp.cspResourceName # ""
    THEN VmStatusRequest(replies)
    ELSE StatusUndefined

\* a native status outside the valid ones is Undefined
ValidStatus(nativeStatus) ==
    IF nativeStatus \in validStatuses THEN nativeStatus ELSE StatusUndefined

\* the corrections of FetchVmStatus by the target action of the VM
CorrectCreate(temp, s) ==
    IF temp.targetAction # ActionCreate THEN s
    ELSE IF temp.status = StatusFailed THEN StatusFailed
    ELSE IF s = StatusUndefined THEN StatusCreating
    ELSE s

CorrectTerminate(temp, s) ==
    IF temp.targetAction # ActionTerminate THEN s
    ELSE IF s = StatusUndefined THEN StatusTerminated
    ELSE IF s = StatusSuspending THEN StatusTerminating
    ELSE s

CorrectResume(temp, s) ==
    IF temp.targetAction # ActionResume THEN s
    ELSE IF s \in {StatusUndefined, StatusCreating} THEN StatusResuming
    ELSE s

\* the correction under reboot without the suspended status, for
\* comparison
CorrectRebootButSuspended(temp, s) ==
    IF temp.targetAction # ActionReboot THEN s
    ELSE IF s \in {StatusUndefined, StatusSuspending, StatusCreating, StatusResuming}
         THEN StatusRebooting
    ELSE s

CorrectReboot(temp, s) ==
    IF temp.targetAction # ActionReboot THEN s
    ELSE IF s \in {StatusUndefined, StatusSuspending, StatusSuspended,
                   StatusCreating, StatusResuming}
         THEN StatusRebooting
    ELSE s

\* the Status field of the new vmStatusTmp of FetchVmStatus, which the
\* check for a terminated VM reads before anything is assigned to it
vmStatusTmpStatus == ""

\* the check for a terminated VM that follows the corrections
CorrectTerminated(s) ==
    IF vmStatusTmpStatus = StatusTerminated THEN StatusTerminated ELSE s

\* the status FetchVmStatus derives from the native status of the call
CorrectedStatus(temp, nativeStatus) ==
    CorrectTerminated(
        CorrectReboot(temp,
            CorrectResume(temp,
                CorrectTerminate(temp,
                    CorrectCreate(temp, ValidStatus(nativeStatus))))))

\* the status FetchVmStatus derives for the VM record temp
DerivedStatus(temp, replies) == CorrectedStatus(temp, CallResult(temp, replies))

\* GetVmCurrentPublicIp fails for a VM without a CSP id
GetVmCurrentPublicIp(temp) == [err |-> temp.cspResourceName = ""]

\* what FetchVmStatus returns when it fails
FetchError(temp) ==
    [err |-> TRUE, status |-> "", targetAction |-> temp.targetAction,
     targetStatus |-> temp.targetStatus]

\* the end of FetchVmStatus that leaves the target of the VM as it is, for
\* comparison
FinishActionKeepsTarget(temp, status) ==
    [err |-> FALSE, status |-> status, targetAction |-> temp.targetAction,
     targetStatus |-> temp.targetStatus]

\* the end of FetchVmStatus: a VM that reached its target status
FinishAction(temp, status) ==
    IF temp.targetStatus # status
    THEN [err |-> FALSE, status |-> status, targetAction |-> temp.targetAction,
          targetStatus |-> temp.targetStatus]
    ELSE IF temp.targetStatus # StatusTerminated
    THEN IF GetVmCurrentPublicIp(temp).err THEN FetchError(temp)
         ELSE [err |-> FALSE, status |-> status, targetAction |-> ActionComplete,
               targetStatus |-> StatusComplete]
    ELSE [err |-> FALSE, status |-> StatusTerminated,
          targetAction |-> ActionTerminate, targetStatus |-> StatusTerminated]

\* the status information FetchVmStatus returns for the VM record temp
VmStatusInfo(temp, replies) ==
    IF temp.targetAction \notin {ActionCreate, ActionTerminate}
       /\ temp.cspResourceName = ""
    THEN FetchError(temp)
    ELSE FinishAction(temp, DerivedStatus(temp, replies))

\* the VM record after FetchVmStatus: written only for a VM with a CSP id
ApplyStatus(temp, info) ==
    IF info.err \/ temp.cspResourceName = "" THEN temp
    ELSE [temp EXCEPT !.status = info.status,
                      !.targetAction = info.targetAction,
                      !.targetStatus = info.targetStatus]

\* FetchVmStatus on the VM record id of vms: the status information
\* returned (err when it fails) and the VM record after its UpdateVmInfo
FetchVmStatus(vms, id, replies) ==
    IF id \notin DOMAIN vms
    THEN [info |-> [err |-> TRUE, status |-> "", targetAction |-> "",
                    targetStatus |-> ""],
          vm |-> vms]
    ELSE [info |-> VmStatusInfo(vms[id], replies),
          vm |-> UpdateVmInfo(vms, id,
                              ApplyStatus(vms[id], VmStatusInfo(vms[id], replies)))]

\* FetchVmStatusAsync: the entry it appends to the result list
StatusEntry(id, info) ==
    [id |-> id, status |-> IF info.err THEN StatusFailed ELSE info.status,
     targetAction |-> info.targetAction, targetStatus |-> info.targetStatus]

FetchVmStatusAsync(vms, id, replies) ==
    StatusEntry(id, FetchVmStatus(vms, id, replies).info)

\* the counters of GetMcisStatus over the entries of the result list
StatusFlag(entries, i) ==
    IF i < 10
    THEN Cardinality({e \in entries : e.status = statusFlagStr[i]})
    ELSE Cardinality({e \in entries :
                        \A j \in 1..9 : e.status # statusFlagStr[j]})

StatusFlags(entries) == [i \in 1..10 |-> StatusFlag(entries, i)]

\* strconv.Itoa
Itoa(n) == ToString(n)

\* the largest counter, and the first index that holds it
TmpMax(flag) == CHOOSE m \in Range(flag) : \A i \in DOMAIN flag : flag[i] <= m

TmpMaxIndex(flag, tmpMax) ==
    IF tmpMax = 0 THEN 1
    ELSE CHOOSE i \in DOMAIN flag :
            flag[i] = tmpMax /\ \A j \in 1..(i - 1) : flag[j] < tmpMax

ProportionStr(count, runningStatus, numVm) ==
    ":" \o Itoa(count) \o " (R:" \o Itoa(runningStatus) \o "/" \o Itoa(numVm) \o ")"

\* the status string by the dominant status
DominantStatus(flag, numVm, tmpMax) ==
    IF tmpMax = numVm
    THEN statusFlagStr[TmpMaxIndex(flag, tmpMax)] \o ProportionStr(tmpMax, flag[3], numVm)
    ELSE IF tmpMax < numVm
    THEN "Partial-" \o statusFlagStr[TmpMaxIndex(flag, tmpMax)]
         \o ProportionStr(tmpMax, flag[3], numVm)
    ELSE statusFlagStr[10] \o ProportionStr(tmpMax, flag[3], numVm)

\* the status string when a VM is Failed, without the case of all VMs Failed
FailedInFrontAlwaysPartial(flag, numVm) ==
    "Partial-" \o statusFlagStr[1] \o ProportionStr(flag[1], flag[3], numVm)

\* the status string when a VM is Failed
FailedInFront(flag, numVm) ==
    IF flag[1] = numVm
    THEN statusFlagStr[1] \o ProportionStr(flag[1], flag[3], numVm)
    ELSE "Partial-" \o statusFlagStr[1] \o ProportionStr(flag[1], flag[3], numVm)

\* the status string GetMcisStatus builds from its counters
StatusString(flag, numVm) ==
    IF flag[1] > 0 THEN FailedInFront(flag, numVm)
    ELSE DominantStatus(flag, numVm, TmpMax(flag))

McisStatusString(entries) == StatusString(StatusFlags(entries), Cardinality(entries))

\* isDone of GetMcisStatus
IsDone(entries) ==
    \A e \in entries : e.targetStatus = StatusComplete \/ e.status = StatusTerminated

\* the MCI record after a GetMcisStatus that leaves out its UpdateMcisInfo
McisAfterStatusWithoutUpdate(m, isDone) == m

\* the MCI record after GetMcisStatus
McisAfterStatus(m, isDone) ==
    IF isDone
    THEN UpdateMcisInfo(m, [m EXCEPT !.targetAction = ActionComplete,
                                     !.targetStatus = StatusComplete])
    ELSE m

\* what GetMcisStatus returns from the entries of its result list
McisStatusInfo(k, entries) ==
    [err |-> FALSE, id |-> "mci", status |-> McisStatusString(entries),
     vm |-> entries, isDone |-> IsDone(entries),
     kv |-> [k EXCEPT !.mci = McisAfterStatus(k.mci, IsDone(entries))]]

\* what GetMcisStatus returns without looking at a VM
NoStatusInfo(k, err) ==
    [err |-> err, id |-> "", status |-> "", vm |-> {}, isDone |-> FALSE, kv |-> k]

\* GetMcisStatus on the store k.  replies[id] is what the CSP answers for
\* VM id; kept is the set of VMs whose entry is in the result list when all
\* FetchVmStatusAsync goroutines are done (they append to the list without
\* a lock, so an append may be lost).
GetMcisStatus(k, kept, replies) ==
    IF ~k.mci.exists THEN NoStatusInfo(k, TRUE)
    ELSE IF ListVmId(k) = {} THEN NoStatusInfo(k, FALSE)
    ELSE McisStatusInfo(
             [k EXCEPT !.vm = [id \in ListVmId(k) |->
                                 FetchVmStatus(k.vm, id, replies[id]).vm[id]]],
             {FetchVmStatusAsync(k.vm, id, replies[id]) : id \in kept})

(* --------------------------- shared resources -------------------------- *)

\* the key of a shared resource of the namespace
ResKey(kind, id) == <<kind, id>>

\* UpdateAssociatedObjectList: add or delete a VM key in the associated
\* list of a resource; no change when the resource does not exist
UpdateAssociatedObjectList(res, kind, id, cmd, vmKey) ==
    IF ResKey(kind, id) \notin DOMAIN res THEN res
    ELSE [res EXCEPT ![ResKey(kind, id)].associated =
              IF cmd = "add" THEN @ \cup {vmKey} ELSE @ \ {vmKey}]

\* the same command on every resource of a list of ids
RECURSIVE UpdateAssociatedObjectLists(_, _, _, _, _)
UpdateAssociatedObjectLists(res, kind, ids, cmd, vmKey) ==
    IF ids = <<>> THEN res
    ELSE UpdateAssociatedObjectLists(
             UpdateAssociatedObjectList(res, kind, Head(ids), cmd, vmKey),
             kind, Tail(ids), cmd, vmKey)

\* the association updates of DelMcis and DelMcisVm for a removed VM, with
\* one resource kind left out
DeleteVmAssociationsButSshKey(res, vmInfo, vmKey) ==
    LET r1 == UpdateAssociatedObjectList(res, StrImage, vmInfo.imageId, "delete", vmKey)
        r3 == UpdateAssociatedObjectList(r1, StrVNet, vmInfo.vNetId, "delete", vmKey)
        r4 == UpdateAssociatedObjectLists(r3, StrSecurityGroup,
                                          vmInfo.securityGroupIds, "delete", vmKey)
    IN  UpdateAssociatedObjectLists(r4, StrDataDisk, vmInfo.dataDiskIds, "delete", vmKey)

\* the association updates of DelMcis and DelMcisVm for a removed VM
DeleteVmAssociations(res, vmInfo, vmKey) ==
    LET r1 == UpdateAssociatedObjectList(res, StrImage, vmInfo.imageId, "delete", vmKey)
        r2 == UpdateAssociatedObjectList(r1, StrSSHKey, vmInfo.sshKeyId, "delete", vmKey)
        r3 == UpdateAssociatedObjectList(r2, StrVNet, vmInfo.vNetId, "delete", vmKey)
        r4 == UpdateAssociatedObjectLists(r3, StrSecurityGroup,
                                          vmInfo.securityGroupIds, "delete", vmKey)
    IN  UpdateAssociatedObjectLists(r4, StrDataDisk, vmInfo.dataDiskIds, "delete", vmKey)

\* the association updates of CreateVm after a successful POST /vm, with
\* one resource kind left out
AddVmAssociationsButVNet(res, vmInfo, vmKey) ==
    LET r1 == UpdateAssociatedObjectList(res, StrImage, vmInfo.imageId, "add", vmKey)
        r2 == UpdateAssociatedObjectList(r1, StrSSHKey, vmInfo.sshKeyId, "add", vmKey)
        r4 == UpdateAssociatedObjectLists(r2, StrSecurityGroup,
                                          vmInfo.securityGroupIds, "add", vmKey)
    IN  UpdateAssociatedObjectLists(r4, StrDataDisk, vmInfo.dataDiskIds, "add", vmKey)

\* the association updates of CreateVm after a successful POST /vm
AddVmAssociations(res, vmInfo, vmKey) ==
    LET r1 == UpdateAssociatedObjectList(res, StrImage, vmInfo.imageId, "add", vmKey)
        r2 == UpdateAssociatedObjectList(r1, StrSSHKey, vmInfo.sshKeyId, "add", vmKey)
        r3 == UpdateAssociatedObjectList(r2, StrVNet, vmInfo.vNetId, "add", vmKey)
        r4 == UpdateAssociatedObjectLists(r3, StrSecurityGroup,
                                          vmInfo.securityGroupIds, "add", vmKey)
    IN  UpdateAssociatedObjectLists(r4, StrDataDisk, vmInfo.dataDiskIds, "add", vmKey)

(* ----------------------------- delete path ----------------------------- *)

\* ListVmBySubGroup
ListVmBySubGroup(k, groupId) == {v \in DOMAIN k.vm : k.vm[v].subGroupId = groupId}

\* DelMcisVm from the deletion of the VM key on (the termination that
\* precedes it without option force is a step of the caller)
DelMcisVm(k, vmId) ==
    IF vmId \notin DOMAIN k.vm THEN k
    ELSE LET vmInfo == k.vm[vmId]
             k1 == [k EXCEPT !.vm = Delete(k.vm, vmId)]
         IN  [k1 EXCEPT
                !.subgroup = {g \in ListSubGroupId(k1) : ListVmBySubGroup(k1, g) # {}},
                !.res = DeleteVmAssociations(k.res, vmInfo, vmId)]

\* the VM loop of DelMcis, over the VMs of the set todo
RECURSIVE DelMcisVmLoop(_, _)
DelMcisVmLoop(k, todo) ==
    IF todo = {} THEN k
    ELSE LET v == CHOOSE x \in todo : TRUE
             vmInfo == k.vm[v]
         IN  DelMcisVmLoop([k EXCEPT !.vm = Delete(k.vm, v),
                                     !.res = DeleteVmAssociations(k.res, vmInfo, v)],
                           todo \ {v})

\* the acceptance check of DelMcis on the status GetMcisStatus returned
DelMcisAccepted(mcisStatus) ==
    ~(/\ mcisStatus.id # ""
      /\ ~(/\ ~Contains(mcisStatus.status, "Partial-")
           /\ \/ Contains(mcisStatus.status, StatusTerminated)
              \/ Contains(mcisStatus.status, StatusUndefined)
              \/ Contains(mcisStatus.status, StatusFailed)))

\* whether DelMcis with option terminate terminates the VMs first
DelMcisTerminatesFirst(mcisStatus, option) ==
    /\ ~(/\ ~Contains(mcisStatus.status, "Partial-")
         /\ Contains(mcisStatus.status, StatusTerminated))
    /\ option = "terminate"

\* DelMcis from its acceptance check on: the VM records with their
\* associations, the sub-group records, then the MCI record
DelMcis(k, option, mcisStatus) ==
    IF ~DelMcisAccepted(mcisStatus) /\ option # "force"
    THEN [err |-> TRUE, kv |-> k]
    ELSE LET k1 == DelMcisVmLoop(k, ListVmId(k))
             k2 == [k1 EXCEPT !.subgroup = {}]
         IN  [err |-> FALSE, kv |-> [k2 EXCEPT !.mci = NoMci]]

\* HandleMciAction with action refine: the VMs whose persisted status is
\* Failed or Undefined are deleted with DelMcisVm
RECURSIVE RefineLoop(_, _)
RefineLoop(k, todo) ==
    IF todo = {} THEN k
    ELSE LET v == CHOOSE x \in todo : TRUE
         IN  RefineLoop(DelMcisVm(k, v), todo \ {v})

HandleMciActionRefine(k) ==
    RefineLoop(k, {v \in DOMAIN k.vm :
                     k.vm[v].status \in {StatusFailed, StatusUndefined}})

(* ------------------- the records of the provisioning log --------------- *)

\* no log under the key of the spec
NoLog == [exists |-> FALSE, corrupted |-> FALSE,
          failureCount |-> 0, successCount |-> 0,
          failureTimestamps |-> <<>>, successTimestamps |-> <<>>,
          failureImages |-> <<>>, successImages |-> <<>>]

\* the log RecordProvisioningEvent starts from when none exists
NewLog == [NoLog EXCEPT !.exists = TRUE]

\* a value under the key of the spec that does not parse as a log
CorruptedLog == [NoLog EXCEPT !.exists = TRUE, !.corrupted = TRUE]

\* GetProvisioningLog: the log read and the store after the read; a value
\* that does not parse is deleted and read as no log
GetProvisioningLog(k) ==
    IF ~k.log.exists
    THEN [kv |-> k, log |-> NoLog]
    ELSE IF k.log.corrupted
         THEN [kv |-> [k EXCEPT !.log = NoLog], log |-> NoLog]
         ELSE [kv |-> k, log |-> k.log]

\* the image is appended to the list unless it is empty or contained
AppendImage(images, cspImageName) ==
    IF cspImageName # "" /\ cspImageName \notin Range(images)
    THEN Append(images, cspImageName) ELSE images

\* the record of a failure without its timestamp, for comparison
RecordFailureWithoutTimestamp(provisioningLog, event) ==
    [provisioningLog EXCEPT
        !.failureCount = @ + 1,
        !.failureImages = AppendImage(@, event.cspImageName)]

\* RecordProvisioningEvent: a failure is counted, with its timestamp and
\* its image
RecordFailure(provisioningLog, event) ==
    [provisioningLog EXCEPT
        !.failureCount = @ + 1,
        !.failureTimestamps = Append(@, event.timestamp),
        !.failureImages = AppendImage(@, event.cspImageName)]

\* RecordProvisioningEvent: a success is counted, with its timestamp and
\* its image
RecordSuccess(provisioningLog, event) ==
    [provisioningLog EXCEPT
        !.successCount = @ + 1,
        !.successTimestamps = Append(@, event.timestamp),
        !.successImages = AppendImage(@, event.cspImageName)]

\* RecordProvisioningEvent that records every success, for comparison
RecordEventEverySuccess(provisioningLog, event) ==
    IF event.isSuccess
    THEN [save |-> TRUE, log |-> RecordSuccess(provisioningLog, event)]
    ELSE [save |-> TRUE, log |-> RecordFailure(provisioningLog, event)]

\* RecordProvisioningEvent on the log it has read or started: whether the
\* log is saved, and the log to save
RecordEvent(provisioningLog, event) ==
    IF event.isSuccess
    THEN IF provisioningLog.failureCount > 0
         THEN [save |-> TRUE, log |-> RecordSuccess(provisioningLog, event)]
         ELSE [save |-> FALSE, log |-> provisioningLog]
    ELSE [save |-> TRUE, log |-> RecordFailure(provisioningLog, event)]

\* the event RecordProvisioningEventsFromMci builds for a VM of the MCI
ProvisioningEvent(vm) ==
    [isSuccess |-> vm.status = StatusRunning, cspImageName |-> vm.cspImageName,
     timestamp |-> 0]

\* one call of RecordProvisioningEvent on the log under the key of the
\* spec: the log after it; a new log needs the spec that GetSpec returns
RecordProvisioningEvent(log, event, specOk) ==
    IF ~log.exists /\ ~specOk THEN log
    ELSE LET recorded == RecordEvent(IF log.exists THEN log ELSE NewLog, event)
         IN  IF recorded.save THEN recorded.log ELSE log

\* RecordProvisioningEventsFromMci: one event for every VM of the MCI
RECURSIVE RecordProvisioningEventsFromMci(_, _, _)
RecordProvisioningEventsFromMci(log, vms, specOk) ==
    IF vms = <<>> THEN log
    ELSE RecordProvisioningEventsFromMci(
             RecordProvisioningEvent(log, ProvisioningEvent(Head(vms)), specOk),
             Tail(vms), specOk)

\* GetMcisInfo: the VM record with the status of its entry in the status
\* list, or as it is stored when the list has no entry for it
GetMcisInfoVm(vmInfo, id, entries) ==
    IF \E e \in entries : e.id = id
    THEN LET e == CHOOSE x \in entries : x.id = id
         IN  [vmInfo EXCEPT !.status = e.status, !.targetStatus = e.targetStatus,
                            !.targetAction = e.targetAction]
    ELSE vmInfo

(* ------------------------------- state --------------------------------- *)

VARIABLES
    kv,       \* the key-value store: the MCI record, its VM records, its
              \* sub-group records and the shared resources of the namespace
    csp,      \* the VMs that exist at the CSP, with their native status
    req,      \* the create request: entry point, policy, sub-group requests
    kv0,      \* the store as it was when the create request arrived
    pc,       \* where the goroutine that serves the create request is
    loc,      \* its local variables
    worker,   \* the goroutines of the fan-out in progress
    errorMu,  \* the mutex errorMu of CreateMci: 0 or the worker holding it
    ret,      \* what the create request returned
    op,       \* the last call of the delete and status API and its result
    del       \* the DelMcis call that sleeps after terminating the VMs

vars == <<kv, csp, req, kv0, pc, loc, worker, errorMu, ret, op, del>>

\* nsId + StrSharedResourceName + connection name, for the one connection
SharedResourceName == "ns-shared-conn"

\* an id that names no resource of the namespace
NoSuchId == "nosuch"

ImageId == "img"

\* the resource kinds getVmReqFromDynamicReq reserves, in its order
ReserveKinds == <<StrVNet, StrSSHKey, StrSecurityGroup>>

\* a new resource record
NewResource == [associated |-> {}]

\* the namespace with the shared resources and the image registered
PreloadedRes ==
    [r \in {ResKey(StrVNet, SharedResourceName), ResKey(StrSSHKey, SharedResourceName),
            ResKey(StrSecurityGroup, SharedResourceName), ResKey(StrImage, ImageId)}
       |-> NewResource]

\* the namespace without them
EmptyRes == [r \in {} |-> NewResource]

\* a VM record
TbVmInfo(status, targetStatus, targetAction, subGroupId, vmRequest) ==
    [status |-> status, targetStatus |-> targetStatus, targetAction |-> targetAction,
     cspResourceName |-> "", cspImageName |-> "", subGroupId |-> subGroupId,
     imageId |-> vmRequest.imageId, sshKeyId |-> vmRequest.sshKeyId,
     vNetId |-> vmRequest.vNetId, securityGroupIds |-> vmRequest.securityGroupIds,
     dataDiskIds |-> vmRequest.dataDiskIds]

\* a sub-group request; a dynamic request names no resource
TbVmReq(name, size, vNetId, sshKeyId) ==
    [name |-> name, subGroupSize |-> size, imageId |-> ImageId,
     vNetId |-> vNetId, sshKeyId |-> sshKeyId,
     securityGroupIds |-> <<SharedResourceName>>, dataDiskIds |-> <<>>]

TbVmDynamicReq(name, size) ==
    [name |-> name, subGroupSize |-> size, imageId |-> "",
     vNetId |-> "", sshKeyId |-> "", securityGroupIds |-> <<>>, dataDiskIds |-> <<>>]

\* subGroupSize as CreateMci and CreateMciDynamic read it
SubGroupSize(vmRequest) ==
    IF Atoi(vmRequest.subGroupSize).err THEN 1 ELSE Atoi(vmRequest.subGroupSize).n

\* the number of VMs a list of sub-group requests asks for
RECURSIVE SumSizes(_)
SumSizes(vmReqs) ==
    IF vmReqs = <<>> THEN 0 ELSE SubGroupSize(Head(vmReqs)) + SumSizes(Tail(vmReqs))

\* totalVmCount of CreateMci
RECURSIVE TotalVmCount(_)
TotalVmCount(vmReqs) ==
    IF vmReqs = <<>> THEN 0
    ELSE LET r == Head(vmReqs)
             a == Atoi(r.subGroupSize)
         IN  (IF r.subGroupSize # "" /\ ~a.err /\ a.n > 0 THEN a.n ELSE 1)
             + TotalVmCount(Tail(vmReqs))

\* the requests of the model: up to MaxSubGroups sub-groups g1, g2, ...,
\* asking for up to MaxVms VMs together
SubGroupName(i) == "g" \o ToString(i)

Sizes == {ToString(n) : n \in 1..MaxVms}

StaticRequests ==
    {r \in UNION {[1..n -> {TbVmReq("g", s, v, k) :
                              s \in Sizes,
                              v \in {SharedResourceName, NoSuchId},
                              k \in {SharedResourceName, NoSuchId}}]
                  : n \in 1..MaxSubGroups} :
        /\ SumSizes(r) <= MaxVms
        /\ \A i \in DOMAIN r : ~(r[i].vNetId = NoSuchId /\ r[i].sshKeyId = NoSuchId)}

DynamicRequests ==
    {r \in UNION {[1..n -> {TbVmDynamicReq("g", s) : s \in Sizes}]
                  : n \in 1..MaxSubGroups} :
        SumSizes(r) <= MaxVms}

\* the sub-groups of a request named by their position
Named(r) == [i \in DOMAIN r |-> [r[i] EXCEPT !.name = SubGroupName(i)]]

NoLoc ==
    [idx |-> 1, vmStartIndex |-> 1, preparedVMs |-> {}, errStr |-> FALSE,
     resultChan |-> <<>>, mciReqVm |-> <<>>, allCreatedResources |-> <<>>,
     rollbackErr |-> FALSE, mciAlreadyExists |-> FALSE,
     vmConfigs |-> <<>>, subGroupsCreated |-> {},
     createErrors |-> 0, vmObjectErrors |-> {}, vmCreateErrors |-> {},
     now |-> 0, wakeAt |-> 0, holdingMciMap |-> ""]

NoRet == [done |-> FALSE, err |-> FALSE, status |-> "", failedVmCount |-> 0]

\* op.status is the status each VM had in the status list of the call,
\* op.mci the status string of the MCI that GetMcisStatus returned in it
NoOp == [name |-> "", option |-> "", err |-> FALSE, status |-> <<>>, mci |-> ""]

NoDel == [sleeping |-> FALSE, option |-> ""]

\* the persisted VM record of a worker without one
NoVm == TbVmInfo("", "", "", "", TbVmDynamicReq("", ""))

\* a goroutine of a fan-out; posted are the kinds of shared resource it has
\* sent a create request for
Worker(p) == [pc |-> p, kind |-> 1, created |-> <<>>, posted |-> <<>>, vmData |-> NoVm]

Policies == {PolicyContinue, PolicyRollback, PolicyRefine}

\* the options of a create request
Options == {"create", "hold"}

\* A create request arrives at a namespace without the MCI; the shared
\* resources of the connection are registered or not.
Init ==
    /\ \E entry \in {"dynamic", "static"}, policy \in Policies, option \in Options :
         \E vmReqs \in (IF entry = "dynamic" THEN DynamicRequests ELSE StaticRequests) :
            req = [entry |-> entry, policy |-> policy, option |-> option,
                   vm |-> Named(vmReqs)]
    /\ \E preloaded \in BOOLEAN :
         /\ req.entry = "static" => preloaded
         /\ kv = [mci |-> NoMci, vm |-> [v \in {} |-> NoVm], subgroup |-> {},
                  res |-> IF preloaded THEN PreloadedRes ELSE EmptyRes,
                  log |-> NoLog]
    /\ kv0 = kv
    /\ csp = [v \in {} |-> ""]
    /\ pc = IF req.entry = "dynamic" THEN "CreateMciDynamic" ELSE "CreateMci"
    /\ loc = [NoLoc EXCEPT !.mciReqVm = IF req.entry = "static" THEN req.vm ELSE <<>>]
    /\ worker = <<>>
    /\ errorMu = 0
    /\ ret = NoRet
    /\ op = NoOp
    /\ del = NoDel

\* the request returns
Return(err, status, failedVmCount) ==
    /\ pc' = "done"
    /\ ret' = [done |-> TRUE, err |-> err, status |-> status,
               failedVmCount |-> failedVmCount]

AllWorkersDone == \A w \in DOMAIN worker : worker[w].pc \in {"done", "failed"}

(* --------------------------- CreateMciDynamic -------------------------- *)

\* UpdateVmStatus: the status of a VM record, and its target status when
\* one is given
UpdateVmStatus(vms, id, status, targetStatus) ==
    IF id \notin DOMAIN vms THEN vms
    ELSE [vms EXCEPT ![id].status = status,
                     ![id].targetStatus = IF targetStatus = "" THEN @ ELSE targetStatus]

\* UpdateMciStatus: the same on the MCI record
UpdateMciStatus(m, status, targetStatus) ==
    IF ~m.exists THEN m
    ELSE [m EXCEPT !.status = status,
                   !.targetStatus = IF targetStatus = "" THEN @ ELSE targetStatus]

\* the VM names of a sub-group that starts at index start
SubGroupVmNames(vmRequest, start) ==
    {VmName(vmRequest.name, i) : i \in start..(start + SubGroupSize(vmRequest) - 1)}

\* where the sub-group of the i-th request starts
RECURSIVE StartIndex(_, _)
StartIndex(vmReqs, i) ==
    IF i = 1 THEN 1 ELSE StartIndex(vmReqs, i - 1) + SubGroupSize(vmReqs[i - 1])

\* UpdateVmStatus on every VM of a set
RECURSIVE UpdateVmStatuses(_, _, _, _)
UpdateVmStatuses(vms, ids, status, targetStatus) ==
    IF ids = {} THEN vms
    ELSE LET v == CHOOSE x \in ids : TRUE
         IN  UpdateVmStatuses(UpdateVmStatus(vms, v, status, targetStatus),
                              ids \ {v}, status, targetStatus)

\* the VM records CreateMciDynamic writes for one sub-group
RECURSIVE PutVmInfos(_, _, _)
PutVmInfos(vms, ids, vmInfo) ==
    IF ids = {} THEN vms
    ELSE LET v == CHOOSE x \in ids : TRUE
         IN  PutVmInfos(Put(vms, v, vmInfo), ids \ {v}, vmInfo)

\* CreateMciDynamic up to the MCI record in status Preparing
CreateMciDynamicStart ==
    /\ pc = "CreateMciDynamic"
    /\ IF kv.mci.exists
       THEN /\ Return(TRUE, "", 0)
            /\ UNCHANGED <<kv, loc>>
       ELSE /\ kv' = [kv EXCEPT !.mci = [exists |-> TRUE, status |-> StatusPreparing,
                                         targetStatus |-> StatusPrepared,
                                         targetAction |-> ""]]
            /\ pc' = "dyn_objects"
            /\ loc' = [loc EXCEPT !.idx = 1, !.vmStartIndex = 1]
            /\ UNCHANGED ret
    /\ UNCHANGED <<csp, req, kv0, worker, errorMu, op, del>>

\* One round of the loop that writes the VM records of a sub-group in
\* status Preparing; after the last round the validation goroutines start.
\* The lookup of the spec and of the connection may fail.
DynCreateVmObjects ==
    /\ pc = "dyn_objects"
    /\ \E connOk \in BOOLEAN :
         LET vmRequest == req.vm[loc.idx]
             names == SubGroupVmNames(vmRequest, loc.vmStartIndex)
             vmInfo == TbVmInfo(StatusPreparing, StatusPrepared, "", vmRequest.name,
                                vmRequest)
             last == loc.idx = Len(req.vm)
         IN  IF ~connOk
             THEN /\ Return(TRUE, "", 0)
                  /\ UNCHANGED <<kv, loc, worker>>
             ELSE /\ kv' = [kv EXCEPT !.vm = PutVmInfos(kv.vm, names, vmInfo)]
                  /\ loc' = [loc EXCEPT !.idx = loc.idx + 1,
                                        !.vmStartIndex = @ + SubGroupSize(vmRequest)]
                  /\ pc' = IF last THEN "dyn_validate" ELSE pc
                  /\ worker' = IF last THEN [i \in DOMAIN req.vm |-> Worker("validate")]
                               ELSE worker
                  /\ UNCHANGED ret
    /\ UNCHANGED <<csp, req, kv0, errorMu, op, del>>

\* A validation goroutine: checkCommonResAvailableForVmDynamicReq asks the
\* CSP for the spec and the image, then the VMs of the sub-group are marked
DynValidate(w) ==
    /\ pc = "dyn_validate"
    /\ w \in DOMAIN worker
    /\ worker[w].pc = "validate"
    /\ \E available \in BOOLEAN :
         LET vmReq == req.vm[w]
             names == SubGroupVmNames(vmReq, StartIndex(req.vm, w))
         IN  /\ kv' = [kv EXCEPT !.vm =
                         IF available
                         THEN UpdateVmStatuses(kv.vm, names, StatusPrepared, StatusRunning)
                         ELSE UpdateVmStatuses(kv.vm, names, StatusFailed, "")]
             /\ loc' = [loc EXCEPT !.errStr = @ \/ ~available,
                                   !.preparedVMs = IF available THEN @ \cup names ELSE @]
    /\ worker' = [worker EXCEPT ![w].pc = "done"]
    /\ UNCHANGED <<csp, req, kv0, pc, errorMu, ret, op, del>>

\* After the validation goroutines: the MCI status follows the number of
\* prepared VMs; with a validation error the request returns it, otherwise
\* the reservation goroutines start.
DynAfterValidate ==
    /\ pc = "dyn_validate"
    /\ AllWorkersDone
    /\ LET preparedCount == Cardinality(loc.preparedVMs)
           totalVmCount == SumSizes(req.vm)
           m == IF preparedCount = totalVmCount
                THEN UpdateMciStatus(kv.mci, StatusPrepared, StatusRunning)
                ELSE IF preparedCount > 0
                THEN UpdateMciStatus(kv.mci, StatusPreparing, "")
                ELSE UpdateMciStatus(kv.mci, StatusFailed, "")
       IN  /\ kv' = [kv EXCEPT !.mci = m]
           /\ IF loc.errStr
              THEN /\ Return(TRUE, m.status, 0)
                   /\ worker' = <<>>
              ELSE /\ pc' = "dyn_reserve"
                   /\ worker' = [i \in DOMAIN req.vm |-> Worker("lookup")]
                   /\ UNCHANGED ret
    /\ UNCHANGED <<csp, req, kv0, loc, errorMu, op, del>>

\* the request getVmReqFromDynamicReq returns for a sub-group
ReservedVmReq(vmRequest) ==
    [vmRequest EXCEPT !.imageId = ImageId, !.vNetId = SharedResourceName,
                      !.sshKeyId = SharedResourceName,
                      !.securityGroupIds = <<SharedResourceName>>]

\* a reservation goroutine sends its result to the result channel
SendResult(w, err, created) ==
    /\ loc' = [loc EXCEPT !.resultChan =
                  Append(@, [err |-> err, vmReq |-> ReservedVmReq(req.vm[w]),
                             createdResources |-> created])]
    /\ worker' = [worker EXCEPT ![w].pc = "done", ![w].created = created]

\* getVmReqFromDynamicReq, first part: the spec, the connection and the
\* image are looked up; each lookup may fail
ReserveLookup(w) ==
    /\ pc = "dyn_reserve"
    /\ w \in DOMAIN worker
    /\ worker[w].pc = "lookup"
    /\ \E found \in BOOLEAN :
         IF found
         THEN /\ worker' = [worker EXCEPT ![w].pc = "get", ![w].kind = 1]
              /\ UNCHANGED loc
         ELSE SendResult(w, TRUE, <<>>)
    /\ UNCHANGED <<kv, csp, req, kv0, pc, errorMu, ret, op, del>>

\* after the resource kind worker[w].kind is settled: the next kind, or the
\* result is sent
ReserveNext(w, created) ==
    IF worker[w].kind < Len(ReserveKinds)
    THEN /\ worker' = [worker EXCEPT ![w].pc = "get", ![w].kind = @ + 1,
                                     ![w].created = created]
         /\ UNCHANGED loc
    ELSE SendResult(w, FALSE, created)

\* getVmReqFromDynamicReq: GetResource on the shared resource of a kind
ReserveGet(w) ==
    /\ pc = "dyn_reserve"
    /\ w \in DOMAIN worker
    /\ worker[w].pc = "get"
    /\ IF ResKey(ReserveKinds[worker[w].kind], SharedResourceName) \in DOMAIN kv.res
       THEN ReserveNext(w, worker[w].created)
       ELSE /\ worker' = [worker EXCEPT ![w].pc = "create"]
            /\ UNCHANGED loc
    /\ UNCHANGED <<kv, csp, req, kv0, pc, errorMu, ret, op, del>>

\* CheckResource of CreateSharedResource: whether the resource is registered
CheckResource(res, kind) == ResKey(kind, SharedResourceName) \in DOMAIN res

\* CreateSharedResource after its CheckResource: the CSP creates the
\* resource or fails, and on success the resource record is written
CreateSharedResource(res, kind, cspOk) ==
    IF ~cspOk THEN [err |-> TRUE, res |-> res]
    ELSE [err |-> FALSE, res |-> Put(res, ResKey(kind, SharedResourceName), NewResource)]

\* getVmReqFromDynamicReq: the shared resource was not found and
\* CreateSharedResource is called; it is refused when the resource is
\* registered by now, otherwise the create request is sent to the CSP
ReserveCreate(w) ==
    /\ pc = "dyn_reserve"
    /\ w \in DOMAIN worker
    /\ worker[w].pc = "create"
    /\ IF CheckResource(kv.res, ReserveKinds[worker[w].kind])
       THEN SendResult(w, TRUE, worker[w].created)
       ELSE /\ worker' = [worker EXCEPT
                            ![w].pc = "post",
                            ![w].posted = Append(@, ReserveKinds[worker[w].kind])]
            /\ UNCHANGED loc
    /\ UNCHANGED <<kv, csp, req, kv0, pc, errorMu, ret, op, del>>

\* CreateSharedResource: the answer of the CSP to the create request
ReservePost(w) ==
    /\ pc = "dyn_reserve"
    /\ w \in DOMAIN worker
    /\ worker[w].pc = "post"
    /\ \E cspOk \in BOOLEAN :
         LET kind == ReserveKinds[worker[w].kind]
             r == CreateSharedResource(kv.res, kind, cspOk)
         IN  /\ kv' = [kv EXCEPT !.res = r.res]
             /\ IF r.err
                THEN SendResult(w, TRUE, worker[w].created)
                ELSE ReserveNext(w, Append(worker[w].created,
                                           ResKey(kind, SharedResourceName)))
    /\ UNCHANGED <<csp, req, kv0, pc, errorMu, ret, op, del>>

\* what the loop over the result channel collects
RECURSIVE CollectVmReqs(_)
CollectVmReqs(results) ==
    IF results = <<>> THEN <<>>
    ELSE (IF Head(results).err THEN <<>> ELSE <<Head(results).vmReq>>)
         \o CollectVmReqs(Tail(results))

RECURSIVE CollectCreatedResources(_)
CollectCreatedResources(results) ==
    IF results = <<>> THEN <<>>
    ELSE (IF Head(results).err THEN <<>> ELSE Head(results).createdResources)
         \o CollectCreatedResources(Tail(results))

\* After the reservation goroutines: the results are read in the order
\* they were sent; with an error the created resources are rolled back,
\* otherwise CreateMci is called with the collected requests.
DynCollect ==
    /\ pc = "dyn_reserve"
    /\ AllWorkersDone
    /\ LET results == loc.resultChan
           hasError == \E i \in DOMAIN results : results[i].err
       IN  /\ loc' = [loc EXCEPT !.mciReqVm = CollectVmReqs(results),
                                 !.allCreatedResources = CollectCreatedResources(results)]
           /\ pc' = IF hasError THEN "dyn_rollback" ELSE "CreateMci"
    /\ worker' = <<>>
    /\ UNCHANGED <<kv, csp, req, kv0, errorMu, ret, op, del>>

\* DelResource without force: refused while the resource has associated
\* objects or when the CSP fails to delete it
DelResource(res, key, cspOk) ==
    IF key \notin DOMAIN res THEN [err |-> TRUE, res |-> res]
    ELSE IF res[key].associated # {} \/ ~cspOk THEN [err |-> TRUE, res |-> res]
    ELSE [err |-> FALSE, res |-> Delete(res, key)]

\* the created resources of one kind are deleted
RECURSIVE DelResources(_, _, _)
DelResources(r, keys, failing) ==
    IF keys = <<>> THEN r
    ELSE LET d == DelResource(r.res, Head(keys), Head(keys) \notin failing)
         IN  DelResources([err |-> r.err \/ d.err, res |-> d.res], Tail(keys), failing)

\* rollbackCreatedResources: the SSH keys, then the security groups, then
\* the vNets of the list; failing are the resources the CSP fails to delete
rollbackCreatedResources(res, createdResources, failing) ==
    LET OfKind(kind) == SelectSeq(createdResources, LAMBDA c : c[1] = kind)
        r1 == DelResources([err |-> FALSE, res |-> res], OfKind(StrSSHKey), failing)
        r2 == DelResources(r1, OfKind(StrSecurityGroup), failing)
    IN  DelResources(r2, OfKind(StrVNet), failing)

\* the reservation failed: rollback of the collected resources, then the
\* error is returned
DynRollback ==
    /\ pc = "dyn_rollback"
    /\ \E failing \in SUBSET Range(loc.allCreatedResources) :
         LET r == rollbackCreatedResources(kv.res, loc.allCreatedResources, failing)
         IN  /\ kv' = [kv EXCEPT !.res = r.res]
             /\ loc' = [loc EXCEPT !.rollbackErr = r.err]
    /\ Return(TRUE, "", 0)
    /\ UNCHANGED <<csp, req, kv0, worker, errorMu, op, del>>

(* ------------------------------ CreateMci ------------------------------ *)

\* CreateMci up to the validation of the requests: an MCI of that name may
\* exist only in status Prepared or Preparing; the connection of every
\* request is looked up
CreateMciStart ==
    /\ pc = "CreateMci"
    /\ \E connOk \in BOOLEAN :
         IF kv.mci.exists /\ kv.mci.status \notin {StatusPrepared, StatusPreparing}
         THEN /\ Return(TRUE, "", 0)
              /\ UNCHANGED loc
         ELSE IF Len(loc.mciReqVm) = 0 \/ ~connOk
         THEN /\ Return(TRUE, "", 0)
              /\ UNCHANGED loc
         ELSE /\ pc' = "mci_build"
              /\ loc' = [loc EXCEPT !.mciAlreadyExists = kv.mci.exists,
                                    !.idx = 1, !.vmStartIndex = 1]
              /\ UNCHANGED ret
    /\ UNCHANGED <<kv, csp, req, kv0, worker, errorMu, op, del>>

\* the VM configurations CreateMci builds for one request
VmConfigs(vmRequest, vmStartIndex) ==
    [j \in 1..SubGroupSize(vmRequest) |->
        [id |-> VmName(vmRequest.name, vmStartIndex + j - 1),
         vmInfo |-> TbVmInfo(StatusCreating, StatusRunning, ActionCreate,
                             vmRequest.name, vmRequest)]]

\* createSubGroup: the sub-group record is written
createSubGroup(k, vmRequest) == [k EXCEPT !.subgroup = @ \cup {vmRequest.name}]

\* One round of the loop over the requests: the connection is looked up,
\* the sub-group record is written, the VM configurations are built
CreateMciBuild ==
    /\ pc = "mci_build"
    /\ \E connOk \in BOOLEAN :
         LET vmRequest == loc.mciReqVm[loc.idx]
             subGroupSize == SubGroupSize(vmRequest)
             last == loc.idx = Len(loc.mciReqVm)
         IN  IF ~connOk
             THEN /\ Return(TRUE, "", 0)
                  /\ UNCHANGED <<kv, loc>>
             ELSE /\ kv' = IF subGroupSize > 0 /\ vmRequest.name \notin loc.subGroupsCreated
                           THEN createSubGroup(kv, vmRequest)
                           ELSE kv
                  /\ loc' = [loc EXCEPT
                               !.subGroupsCreated = @ \cup {vmRequest.name},
                               !.vmConfigs = @ \o VmConfigs(vmRequest, loc.vmStartIndex),
                               !.vmStartIndex = @ + subGroupSize,
                               !.idx = @ + 1]
                  /\ pc' = IF last THEN "mci_object" ELSE pc
                  /\ UNCHANGED ret
    /\ UNCHANGED <<csp, req, kv0, worker, errorMu, op, del>>

\* createMciObject, or the update of the MCI record that CreateMciDynamic
\* wrote; then a goroutine per VM configuration is started
CreateMciObject ==
    /\ pc = "mci_object"
    /\ kv' = [kv EXCEPT !.mci =
                IF ~loc.mciAlreadyExists
                THEN [exists |-> TRUE, status |-> StatusCreating,
                      targetStatus |-> StatusRunning, targetAction |-> ActionCreate]
                ELSE UpdateMcisInfo(kv.mci,
                        [kv.mci EXCEPT !.status = StatusCreating,
                                       !.targetStatus = StatusRunning,
                                       !.targetAction = ActionCreate])]
    /\ IF req.option = "hold"
       THEN /\ pc' = "mci_hold"
            /\ loc' = [loc EXCEPT !.holdingMciMap = "holding"]
            /\ UNCHANGED worker
       ELSE /\ pc' = "mci_objects"
            /\ worker' = [i \in DOMAIN loc.vmConfigs |-> Worker("object")]
            /\ UNCHANGED loc
    /\ UNCHANGED <<csp, req, kv0, errorMu, ret, op, del>>

\* the REST surface stores the decision of the user for the held MCI
HoldControl(value) ==
    /\ pc = "mci_hold"
    /\ loc.holdingMciMap # ""
    /\ loc.holdingMciMap # value
    /\ loc' = [loc EXCEPT !.holdingMciMap = value]
    /\ UNCHANGED <<kv, csp, req, kv0, pc, worker, errorMu, ret, op, del>>

\* handleHoldOption without the hold, for comparison
handleHoldOptionWithoutHold(value) == "break"

\* one round of the loop of handleHoldOption on the value it loads from
\* holdingMciMap ("" when the map has no entry for the MCI)
handleHoldOption(value) ==
    IF value = "" THEN "break"
    ELSE IF value = "continue" THEN "break"
    ELSE IF value = "withdraw" THEN "withdraw"
    ELSE "sleep"

\* CreateVmObject: needs the MCI record and the connection
CreateVmObject(k, id, vmInfoData, connOk) ==
    IF ~k.mci.exists \/ ~connOk THEN [err |-> TRUE, kv |-> k]
    ELSE [err |-> FALSE, kv |-> [k EXCEPT !.vm = Put(k.vm, id, vmInfoData)]]

\* createVmObjectSafe: an existing VM record is put back to Creating with
\* the resources of the request, a missing one is created
createVmObjectSafe(k, id, vmInfoData, connOk) ==
    IF id \in DOMAIN k.vm
    THEN [err |-> FALSE,
          kv |-> [k EXCEPT !.vm = UpdateVmInfo(k.vm, id,
                     [k.vm[id] EXCEPT !.status = StatusCreating,
                                      !.targetAction = ActionCreate,
                                      !.targetStatus = StatusRunning,
                                      !.imageId = vmInfoData.imageId,
                                      !.vNetId = vmInfoData.vNetId,
                                      !.securityGroupIds = vmInfoData.securityGroupIds,
                                      !.sshKeyId = vmInfoData.sshKeyId,
                                      !.dataDiskIds = vmInfoData.dataDiskIds])]]
    ELSE CreateVmObject(k, id, vmInfoData, connOk)

\* sync.Mutex.Lock by goroutine w: the mutex is taken when it is free,
\* otherwise the goroutine waits, also when it holds the mutex itself
MutexLock(mu, w) == [acquired |-> mu = 0, mu |-> IF mu = 0 THEN w ELSE mu]

\* A VM-object goroutine runs createVmObjectSafe
VmObject(w) ==
    /\ pc = "mci_objects"
    /\ w \in DOMAIN worker
    /\ worker[w].pc = "object"
    /\ \E connOk \in BOOLEAN :
         LET cfg == loc.vmConfigs[w]
             r == createVmObjectSafe(kv, cfg.id, cfg.vmInfo, connOk)
         IN  /\ kv' = r.kv
             /\ worker' = [worker EXCEPT ![w].pc = IF r.err THEN "object_error" ELSE "done"]
    /\ UNCHANGED <<csp, req, kv0, pc, loc, errorMu, ret, op, del>>

\* The error branch of a VM-object goroutine: errorMu.Lock, the error is
\* appended to createErrors, then addVmError locks errorMu again before it
\* appends to vmObjectErrors and both locks are released.
VmObjectError(w) ==
    /\ pc = "mci_objects"
    /\ w \in DOMAIN worker
    /\ worker[w].pc = "object_error"
    /\ MutexLock(errorMu, w).acquired
    /\ LET inner == MutexLock(MutexLock(errorMu, w).mu, w)
       IN  IF inner.acquired
           THEN /\ loc' = [loc EXCEPT !.createErrors = @ + 1,
                                      !.vmObjectErrors = @ \cup {loc.vmConfigs[w].id}]
                /\ worker' = [worker EXCEPT ![w].pc = "done"]
                /\ errorMu' = 0
           ELSE /\ loc' = [loc EXCEPT !.createErrors = @ + 1]
                /\ worker' = [worker EXCEPT ![w].pc = "addVmError"]
                /\ errorMu' = inner.mu
    /\ UNCHANGED <<kv, csp, req, kv0, pc, ret, op, del>>

\* the force-delete of cleanupPartialMci: DelMci with option force
cleanupPartialMci(k, kept, replies) ==
    LET mcisStatus == GetMcisStatus(k, kept, replies)
    IN  DelMcis(mcisStatus.kv, "force", mcisStatus).kv

\* handleHoldOption polls holdingMciMap: on continue the goroutines for the
\* VM objects are started, on withdraw the MCI is force-deleted and the
\* error returned, otherwise it sleeps and polls again
HoldPoll ==
    /\ pc = "mci_hold"
    /\ LET round == handleHoldOption(loc.holdingMciMap)
       IN  /\ round # "sleep"
           /\ loc' = [loc EXCEPT !.holdingMciMap = ""]
           /\ IF round = "withdraw"
              THEN /\ kv' = cleanupPartialMci(kv, ListVmId(kv),
                                              [v \in ListVmId(kv) |-> <<"", "">>])
                   /\ Return(TRUE, "", 0)
                   /\ UNCHANGED worker
              ELSE /\ pc' = "mci_objects"
                   /\ worker' = [i \in DOMAIN loc.vmConfigs |-> Worker("object")]
                   /\ UNCHANGED <<kv, ret>>
    /\ UNCHANGED <<csp, req, kv0, errorMu, op, del>>

\* After the VM-object goroutines: with errors and policy rollback the MCI
\* is force-deleted and the error returned; otherwise the VM records are
\* read back and a goroutine per VM is started to create it.
CreateMciAfterObjects ==
    /\ pc = "mci_objects"
    /\ AllWorkersDone
    /\ IF loc.createErrors > 0 /\ req.policy = PolicyRollback
       THEN /\ kv' = cleanupPartialMci(kv, ListVmId(kv),
                                       [v \in ListVmId(kv) |-> <<"", "">>])
            /\ Return(TRUE, "", 0)
            /\ UNCHANGED <<loc, worker>>
       ELSE IF \E i \in DOMAIN loc.vmConfigs : loc.vmConfigs[i].id \notin DOMAIN kv.vm
       THEN /\ Return(TRUE, "", 0)
            /\ UNCHANGED <<kv, loc, worker>>
       ELSE /\ pc' = "mci_create"
            /\ loc' = [loc EXCEPT !.createErrors = 0]
            /\ worker' = [i \in DOMAIN loc.vmConfigs |->
                            [Worker("create") EXCEPT
                                !.vmData = kv.vm[loc.vmConfigs[i].id]]]
            /\ UNCHANGED <<kv, ret>>
    /\ UNCHANGED <<csp, req, kv0, errorMu, op, del>>

\* GetCspResourceName: empty for a resource that is not in the namespace
GetCspResourceName(res, kind, id) ==
    IF ResKey(kind, id) \in DOMAIN res THEN id ELSE ""

\* What CreateVm does before POST /vm with the resources of the VM:
\* "return" when it returns the error of the vNet lookup as it is,
\* "failed" when it marks the VM Failed and returns, "post" otherwise
CreateVmLookups(res, vmInfoData) ==
    IF GetCspResourceName(res, StrVNet, vmInfoData.vNetId) = "" THEN "return"
    ELSE IF \E i \in DOMAIN vmInfoData.securityGroupIds :
               GetCspResourceName(res, StrSecurityGroup,
                                  vmInfoData.securityGroupIds[i]) = ""
         THEN "failed"
    ELSE IF \E i \in DOMAIN vmInfoData.dataDiskIds :
               GetCspResourceName(res, StrDataDisk, vmInfoData.dataDiskIds[i]) = ""
         THEN "failed"
    ELSE IF GetCspResourceName(res, StrSSHKey, vmInfoData.sshKeyId) = "" THEN "failed"
    ELSE "post"

\* the error branch of a VM-create goroutine: under errorMu the error is
\* appended to createErrors and to vmCreateErrors
VmCreateError(w) ==
    /\ MutexLock(errorMu, w).acquired
    /\ errorMu' = 0
    /\ loc' = [loc EXCEPT !.createErrors = @ + 1,
                          !.vmCreateErrors = @ \cup {loc.vmConfigs[w].id}]
    /\ worker' = [worker EXCEPT ![w].pc = "failed"]

\* CreateVm up to the answer to POST /vm.  A lookup of a resource of the
\* VM may fail, and the CSP may fail to create the VM.
CreateVmPost(w) ==
    /\ pc = "mci_create"
    /\ w \in DOMAIN worker
    /\ worker[w].pc = "create"
    /\ \E cspOk \in BOOLEAN :
         LET id == loc.vmConfigs[w].id
             vmInfoData == worker[w].vmData
             lookups == CreateVmLookups(kv.res, vmInfoData)
             failed == [vmInfoData EXCEPT !.status = StatusFailed]
         IN  IF lookups = "return"
             THEN /\ VmCreateError(w)
                  /\ UNCHANGED <<kv, csp>>
             ELSE IF lookups = "failed" \/ ~cspOk
             THEN /\ kv' = [kv EXCEPT !.vm = UpdateVmInfo(kv.vm, id, failed)]
                  /\ VmCreateError(w)
                  /\ UNCHANGED csp
             ELSE /\ csp' = Put(csp, id, StatusRunning)
                  /\ worker' = [worker EXCEPT ![w].pc = "posted"]
                  /\ UNCHANGED <<kv, loc, errorMu>>
    /\ UNCHANGED <<req, kv0, pc, ret, op, del>>

\* CreateVm after a successful POST /vm: the associations are added, the
\* status is fetched and the VM record is written with the CSP name
CreateVmDone(w) ==
    /\ pc = "mci_create"
    /\ w \in DOMAIN worker
    /\ worker[w].pc = "posted"
    /\ LET id == loc.vmConfigs[w].id
           vmInfoData == [worker[w].vmData EXCEPT !.cspResourceName = id,
                                                  !.cspImageName = worker[w].vmData.imageId,
                                                  !.targetAction = ActionComplete,
                                                  !.targetStatus = StatusComplete]
           res1 == AddVmAssociations(kv.res, vmInfoData, id)
           vmStatusInfoTmp == FetchVmStatus(kv.vm, id, <<csp[id], csp[id]>>)
       IN  IF vmStatusInfoTmp.info.err
           THEN /\ kv' = [kv EXCEPT !.res = res1,
                                    !.vm = UpdateVmInfo(vmStatusInfoTmp.vm, id,
                                              [vmInfoData EXCEPT !.status = StatusFailed])]
                /\ VmCreateError(w)
           ELSE /\ kv' = [kv EXCEPT !.res = res1,
                                    !.vm = UpdateVmInfo(vmStatusInfoTmp.vm, id,
                                              [vmInfoData EXCEPT
                                                 !.status = vmStatusInfoTmp.info.status])]
                /\ worker' = [worker EXCEPT ![w].pc = "done"]
                /\ UNCHANGED <<loc, errorMu>>
    /\ UNCHANGED <<csp, req, kv0, pc, ret, op, del>>

\* what the CSP answers to the status requests for VM id: its native
\* status, or nothing for the VMs of the set quiet
Replies(c, id, quiet) ==
    IF id \in quiet \/ id \notin DOMAIN c THEN <<"", "">> ELSE <<c[id], c[id]>>

\* the VMs for which FetchVmStatus asks the CSP
Asked(k) ==
    {v \in DOMAIN k.vm :
        k.vm[v].status # StatusTerminated /\ k.vm[v].cspResourceName # ""}

\* the result lists that the goroutines of GetMcisStatus may leave
Kept(k) == IF ListVmId(k) = {} THEN {{}} ELSE (SUBSET ListVmId(k)) \ {{}}

\* After the VM-create goroutines: with errors and policy rollback the MCI
\* is force-deleted and the error returned; otherwise the MCI record gets
\* the status GetMciStatus derives.
CreateMciAfterCreate ==
    /\ pc = "mci_create"
    /\ AllWorkersDone
    /\ \E kept \in Kept(kv), quiet \in SUBSET Asked(kv) :
         LET replies == [v \in ListVmId(kv) |-> Replies(csp, v, quiet)]
         IN  IF loc.createErrors > 0 /\ req.policy = PolicyRollback
             THEN /\ kv' = cleanupPartialMci(kv, kept, replies)
                  /\ Return(TRUE, "", 0)
             ELSE LET mciTmp == kv.mci
                      mciStatusTmp == GetMcisStatus(kv, kept, replies)
                      status == mciStatusTmp.status
                      reached == mciTmp.targetStatus = status
                      mciNew == [mciTmp EXCEPT
                                   !.status = status,
                                   !.targetStatus = IF reached THEN StatusComplete ELSE @,
                                   !.targetAction = IF reached THEN ActionComplete ELSE @]
                  IN  /\ kv' = [mciStatusTmp.kv EXCEPT
                                  !.mci = UpdateMcisInfo(mciStatusTmp.kv.mci, mciNew)]
                      /\ pc' = "mci_refine"
                      /\ UNCHANGED ret
    /\ worker' = <<>>
    /\ UNCHANGED <<csp, req, kv0, loc, errorMu, op, del>>

\* policy refine with errors: HandleMciAction with action refine
CreateMciRefine ==
    /\ pc = "mci_refine"
    /\ kv' = IF req.policy = PolicyRefine
                /\ (loc.vmObjectErrors # {} \/ loc.vmCreateErrors # {})
             THEN HandleMciActionRefine(kv)
             ELSE kv
    /\ pc' = "mci_info"
    /\ UNCHANGED <<csp, req, kv0, loc, worker, errorMu, ret, op, del>>

\* the VMs of the MCI that GetMciInfo returns, in the order of their ids
MciResultVms(k, entries) ==
    LET ids == SelectSeq([i \in DOMAIN loc.vmConfigs |-> loc.vmConfigs[i].id],
                         LAMBDA id : id \in ListVmId(k))
    IN  [i \in DOMAIN ids |-> GetMcisInfoVm(k.vm[ids[i]], ids[i], entries)]

\* GetMciInfo, the creation errors, the events of the VMs recorded to the
\* provisioning log (the spec of the VMs is in the store), and the return
\* of the MCI
CreateMciReturn ==
    /\ pc = "mci_info"
    /\ \E kept \in Kept(kv), quiet \in SUBSET Asked(kv) :
         LET replies == [v \in ListVmId(kv) |-> Replies(csp, v, quiet)]
             mciResult == GetMcisStatus(kv, kept, replies)
             failedVmCount == Cardinality(loc.vmObjectErrors)
                              + Cardinality(loc.vmCreateErrors)
         IN  /\ kv' = [mciResult.kv EXCEPT !.log =
                         RecordProvisioningEventsFromMci(
                            kv.log, MciResultVms(kv, mciResult.vm), TRUE)]
             /\ Return(FALSE, mciResult.status, failedVmCount)
    /\ UNCHANGED <<csp, req, kv0, loc, worker, errorMu, op, del>>

Next ==
    \/ CreateMciDynamicStart
    \/ DynCreateVmObjects
    \/ \E w \in 1..MaxSubGroups : DynValidate(w)
    \/ DynAfterValidate
    \/ \E w \in 1..MaxSubGroups : ReserveLookup(w)
    \/ \E w \in 1..MaxSubGroups : ReserveGet(w)
    \/ \E w \in 1..MaxSubGroups : ReserveCreate(w)
    \/ \E w \in 1..MaxSubGroups : ReservePost(w)
    \/ DynCollect
    \/ DynRollback
    \/ CreateMciStart
    \/ CreateMciBuild
    \/ CreateMciObject
    \/ \E value \in {"continue", "withdraw"} : HoldControl(value)
    \/ HoldPoll
    \/ \E w \in 1..MaxVms : VmObject(w)
    \/ \E w \in 1..MaxVms : VmObjectError(w)
    \/ CreateMciAfterObjects
    \/ \E w \in 1..MaxVms : CreateVmPost(w)
    \/ \E w \in 1..MaxVms : CreateVmDone(w)
    \/ CreateMciAfterCreate
    \/ CreateMciRefine
    \/ CreateMciReturn

Spec == Init /\ [][Next]_vars

(* ------------------------ an MCI after its create ---------------------- *)

\* the VMs of the MCI: VM i is the one VM of sub-group g<i>
LifeVmIds == {VmName(SubGroupName(i), i) : i \in 1..MaxVms}

LifeVmReq(g) == TbVmReq(g, "1", SharedResourceName, SharedResourceName)

\* the record CreateMci leaves of a VM that the CSP created and reported
\* as Running
CreatedVm(g, id) ==
    [TbVmInfo(StatusRunning, StatusComplete, ActionComplete, g, LifeVmReq(g))
        EXCEPT !.cspResourceName = id]

\* the record CreateMci leaves of a VM that the CSP failed to create
FailedVm(g) == TbVmInfo(StatusFailed, StatusRunning, ActionCreate, g, LifeVmReq(g))

\* the VM records after a create of n VMs of which the CSP created some
LifeVms(n, created) ==
    [id \in {VmName(SubGroupName(i), i) : i \in 1..n} |->
        LET i == CHOOSE j \in 1..n : VmName(SubGroupName(j), j) = id
        IN  IF i \in created THEN CreatedVm(SubGroupName(i), id)
            ELSE FailedVm(SubGroupName(i))]

\* the MCI record after that create
LifeMci(vms) ==
    LET entries == {StatusEntry(id, [err |-> FALSE, status |-> vms[id].status,
                                     targetAction |-> vms[id].targetAction,
                                     targetStatus |-> vms[id].targetStatus])
                    : id \in DOMAIN vms}
    IN  [exists |-> TRUE, status |-> McisStatusString(entries),
         targetStatus |-> IF IsDone(entries) THEN StatusComplete ELSE StatusRunning,
         targetAction |-> IF IsDone(entries) THEN ActionComplete ELSE ActionCreate]

\* the shared resources after that create
LifeRes(vms) ==
    [r \in DOMAIN PreloadedRes |->
        [associated |-> {id \in DOMAIN vms : vms[id].cspResourceName # ""}]]

\* A create with policy continue has returned an MCI of up to MaxVms VMs;
\* the status and delete API is called on it, one call at a time.
InitLife ==
    /\ \E n \in 1..MaxVms, created \in SUBSET (1..MaxVms) :
         /\ created \subseteq 1..n
         /\ kv = [mci |-> LifeMci(LifeVms(n, created)), vm |-> LifeVms(n, created),
                  subgroup |-> {SubGroupName(i) : i \in 1..n},
                  res |-> LifeRes(LifeVms(n, created))]
         /\ csp = [id \in {VmName(SubGroupName(i), i) : i \in created} |-> StatusRunning]
    /\ kv0 = kv
    /\ req = [entry |-> "static", policy |-> PolicyContinue, option |-> "create",
            vm |-> <<>>]
    /\ pc = "done"
    /\ loc = NoLoc
    /\ worker = <<>>
    /\ errorMu = 0
    /\ ret = [NoRet EXCEPT !.done = TRUE, !.status = kv.mci.status]
    /\ op = NoOp
    /\ del = NoDel

\* the status every VM of k has in a complete status list
StatusOfVms(k, replies) ==
    [id \in ListVmId(k) |-> FetchVmStatusAsync(k.vm, id, replies[id]).status]

\* The CSP ends a running VM on its own, or ends a VM it was terminating
CspTerminatesVm(v) ==
    /\ v \in DOMAIN csp
    /\ csp[v] \in {StatusRunning, StatusTerminating}
    /\ csp' = [csp EXCEPT ![v] = StatusTerminated]
    /\ UNCHANGED <<kv, req, kv0, pc, loc, worker, errorMu, ret, op, del>>

\* a call of GetMcisStatus
GetMcisStatusCall ==
    /\ ~del.sleeping
    /\ kv.mci.exists
    /\ \E kept \in Kept(kv), quiet \in SUBSET Asked(kv) :
         LET replies == [v \in ListVmId(kv) |-> Replies(csp, v, quiet)]
             mcisStatus == GetMcisStatus(kv, kept, replies)
         IN  /\ kv' = mcisStatus.kv
             /\ op' = [name |-> "GetMcisStatus", option |-> "", err |-> mcisStatus.err,
                       status |-> StatusOfVms(kv, replies),
                       mci |-> mcisStatus.status,
                       vm |-> {e.id : e \in mcisStatus.vm}]
    /\ kv0' = kv
    /\ UNCHANGED <<csp, req, pc, loc, worker, errorMu, ret, del>>

\* a call of GetMcisVmStatus on the VM v
GetMcisVmStatus(v) ==
    /\ ~del.sleeping
    /\ v \in DOMAIN kv.vm
    /\ \E quiet \in SUBSET {v} :
         LET vmStatusResponse == FetchVmStatus(kv.vm, v, Replies(csp, v, quiet))
         IN  /\ kv' = [kv EXCEPT !.vm = vmStatusResponse.vm]
             /\ op' = [name |-> "GetMcisVmStatus", option |-> "",
                       err |-> vmStatusResponse.info.err,
                       status |-> [id \in {v} |-> vmStatusResponse.info.status],
                       mci |-> ""]
    /\ kv0' = kv
    /\ UNCHANGED <<csp, req, pc, loc, worker, errorMu, ret, del>>

\* ControlVm with action terminate: the CSP is asked to terminate the VM;
\* when it accepts, the VM record is put in Terminating with target
\* Terminated.  A VM that is Terminated is left as it is.
ControlVmTerminate(k, c, v, cspOk) ==
    IF v \notin DOMAIN k.vm \/ k.vm[v].cspResourceName = "" \/ ~cspOk
    THEN [err |-> TRUE, kv |-> k, csp |-> c]
    ELSE IF k.vm[v].status = StatusTerminated
    THEN [err |-> FALSE, kv |-> k, csp |-> c]
    ELSE [err |-> FALSE,
          kv |-> [k EXCEPT !.vm[v].status = StatusTerminating,
                           !.vm[v].targetAction = ActionTerminate,
                           !.vm[v].targetStatus = StatusTerminated],
          csp |-> IF v \in DOMAIN c /\ c[v] # StatusTerminated
                  THEN [c EXCEPT ![v] = StatusTerminating] ELSE c]

\* HandleMcisAction with action terminate: ControlVm on every VM; failing
\* are the VMs the CSP refuses to terminate
RECURSIVE HandleMciActionTerminate(_, _, _)
HandleMciActionTerminate(r, todo, failing) ==
    IF todo = {} THEN r
    ELSE LET v == CHOOSE x \in todo : TRUE
             t == ControlVmTerminate(r.kv, r.csp, v, v \notin failing)
         IN  HandleMciActionTerminate([err |-> r.err \/ t.err, kv |-> t.kv, csp |-> t.csp],
                                      todo \ {v}, failing)

\* A call of DelMcis, up to its return or up to the sleep that follows the
\* termination of the VMs with option terminate
DelMcisCall(option) ==
    /\ ~del.sleeping
    /\ kv0' = kv
    /\ IF ~kv.mci.exists
       THEN /\ op' = [name |-> "DelMcis", option |-> option, err |-> TRUE,
                      status |-> <<>>, mci |-> ""]
            /\ UNCHANGED <<kv, csp, del>>
       ELSE \E kept \in Kept(kv), quiet \in SUBSET Asked(kv) :
              LET replies == [v \in ListVmId(kv) |-> Replies(csp, v, quiet)]
                  mcisStatus == GetMcisStatus(kv, kept, replies)
                  refined == HandleMciActionRefine(mcisStatus.kv)
                  deleted == DelMcis(mcisStatus.kv, option, mcisStatus)
              IN  IF DelMcisTerminatesFirst(mcisStatus, option)
                  THEN \E failing \in SUBSET ListVmId(refined) :
                         LET terminated == HandleMciActionTerminate(
                                               [err |-> FALSE, kv |-> refined, csp |-> csp],
                                               ListVmId(refined), failing)
                         IN  /\ kv' = terminated.kv
                             /\ csp' = terminated.csp
                             /\ del' = IF terminated.err THEN del
                                       ELSE [sleeping |-> TRUE, option |-> option]
                             /\ op' = [name |-> IF terminated.err THEN "DelMcis"
                                                ELSE "Sleep",
                                       option |-> option, err |-> terminated.err,
                                       status |-> StatusOfVms(kv, replies),
                                 mci |-> mcisStatus.status]
                  ELSE /\ kv' = deleted.kv
                       /\ op' = [name |-> "DelMcis", option |-> option,
                                 err |-> deleted.err,
                                 status |-> StatusOfVms(kv, replies),
                                 mci |-> mcisStatus.status]
                       /\ UNCHANGED <<csp, del>>
    /\ UNCHANGED <<req, pc, loc, worker, errorMu, ret>>

\* DelMcis with option terminate after its sleep: the status is read again
\* and the deletion is accepted or refused
DelMcisAfterSleep ==
    /\ del.sleeping
    /\ \E kept \in Kept(kv), quiet \in SUBSET Asked(kv) :
         LET replies == [v \in ListVmId(kv) |-> Replies(csp, v, quiet)]
             mcisStatus == GetMcisStatus(kv, kept, replies)
             deleted == DelMcis(mcisStatus.kv, del.option, mcisStatus)
         IN  /\ kv' = deleted.kv
             /\ op' = [name |-> "DelMcis", option |-> del.option, err |-> deleted.err,
                       status |-> StatusOfVms(kv, replies),
                                 mci |-> mcisStatus.status]
    /\ del' = NoDel
    /\ UNCHANGED <<csp, req, kv0, pc, loc, worker, errorMu, ret>>

\* A call of DelMcisVm on the VM v: without option force the VM is
\* terminated first
DelMcisVmCall(v, option) ==
    /\ ~del.sleeping
    /\ v \in DOMAIN kv.vm
    /\ kv0' = kv
    /\ \E cspOk \in BOOLEAN :
         LET terminated == ControlVmTerminate(kv, csp, v, cspOk)
         IN  IF option = "force"
             THEN /\ kv' = DelMcisVm(kv, v)
                  /\ op' = [name |-> "DelMcisVm", option |-> option, err |-> FALSE,
                            status |-> <<>>, mci |-> ""]
                  /\ UNCHANGED csp
             ELSE IF terminated.err
             THEN /\ op' = [name |-> "DelMcisVm", option |-> option, err |-> TRUE,
                            status |-> <<>>, mci |-> ""]
                  /\ UNCHANGED <<kv, csp>>
             ELSE /\ kv' = DelMcisVm(terminated.kv, v)
                  /\ csp' = terminated.csp
                  /\ op' = [name |-> "DelMcisVm", option |-> option, err |-> FALSE,
                            status |-> <<>>, mci |-> ""]
    /\ UNCHANGED <<req, pc, loc, worker, errorMu, ret, del>>

NextLife ==
    \/ \E v \in LifeVmIds : CspTerminatesVm(v)
    \/ GetMcisStatusCall
    \/ \E v \in LifeVmIds : GetMcisVmStatus(v)
    \/ \E option \in {"", "terminate", "force"} : DelMcisCall(option)
    \/ DelMcisAfterSleep
    \/ \E v \in LifeVmIds, option \in {"", "force"} : DelMcisVmCall(v, option)

SpecLife == InitLife /\ [][NextLife]_vars

(* ------------------- the status string of a result list ---------------- *)

\* the number of entries of a result list of GetMcisStatus
MaxStatusVms == 3

\* the result lists of GetMcisStatus for n VMs: every entry has one of the
\* statuses FetchVmStatusAsync can give it
ResultLists(n) ==
    [{VmName(SubGroupName(1), i) : i \in 1..n} -> Range(statusFlagStr)]

\* the entries of the result list that gives VM id the status list[id]
EntriesOf(list) ==
    {StatusEntry(id, [err |-> FALSE, status |-> list[id],
                      targetAction |-> ActionComplete,
                      targetStatus |-> StatusComplete]) : id \in DOMAIN list}

\* The fan-out of GetMcisStatus has filled the result list op.status
InitStatus ==
    /\ \E n \in 1..MaxStatusVms : \E list \in ResultLists(n) :
         op = [NoOp EXCEPT !.status = list]
    /\ kv = [mci |-> NoMci, vm |-> [v \in {} |-> NoVm], subgroup |-> {},
             res |-> EmptyRes]
    /\ kv0 = kv
    /\ csp = [v \in {} |-> ""]
    /\ req = [entry |-> "static", policy |-> PolicyContinue, option |-> "create",
            vm |-> <<>>]
    /\ pc = "done"
    /\ loc = NoLoc
    /\ worker = <<>>
    /\ errorMu = 0
    /\ ret = NoRet
    /\ del = NoDel

\* GetMcisStatus from its counters on: the status string of the result list
GetMcisStatusString ==
    /\ op.name = ""
    /\ op' = [op EXCEPT !.name = "GetMcisStatus"]
    /\ ret' = [ret EXCEPT !.done = TRUE,
                          !.status = McisStatusString(EntriesOf(op.status))]
    /\ UNCHANGED <<kv, csp, req, kv0, pc, loc, worker, errorMu, del>>

NextStatus == GetMcisStatusString

SpecStatus == InitStatus /\ [][NextStatus]_vars

(* ------------------- the rollback of created resources ----------------- *)

\* the longest list of created resources, and the last tick of the clock
MaxCreated == 3
MaxTime == 6

\* the semaphore of rollbackCreatedResources and its sleep, in seconds
maxConcurrency == 10
rollbackSleep == 5

\* the order in which rollbackCreatedResources deletes the kinds
RollbackOrder == <<StrSSHKey, StrSecurityGroup, StrVNet>>

\* the ids of the resources a request may have created
CreatedIds == {SharedResourceName, "ns2-shared-conn"}

\* the lists of created resources handed to rollbackCreatedResources
CreatedLists ==
    UNION {[1..n -> {ResKey(k, id) : k \in Range(RollbackOrder), id \in CreatedIds}]
           : n \in 1..MaxCreated}

\* the goroutine that deletes one resource of the list: not started yet,
\* started, holding the semaphore (DelResource begins at startAt), done
Deleter(key) == [pc |-> "idle", key |-> key, startAt |-> 0, doneAt |-> 0]

\* the goroutines of one kind
OfKind(kind) == {w \in DOMAIN worker : worker[w].key[1] = kind}

\* wg.Wait without a wait, for comparison
PhaseDoneWithoutWait(kind) == TRUE

\* wg.Wait: every goroutine of the kind has finished
PhaseDone(kind) == \A w \in OfKind(kind) : worker[w].pc = "done"

\* rollbackCreatedResources is called with a list of resources the request
\* has created
InitRollback ==
    /\ \E list \in CreatedLists :
         /\ loc = [NoLoc EXCEPT !.allCreatedResources = list]
         /\ kv = [mci |-> NoMci, vm |-> [v \in {} |-> NoVm], subgroup |-> {},
                  res |-> [k \in Range(list) |-> NewResource]]
         /\ worker = [i \in DOMAIN list |-> Deleter(list[i])]
    /\ kv0 = kv
    /\ csp = [v \in {} |-> ""]
    /\ req = [entry |-> "dynamic", policy |-> PolicyContinue, option |-> "create",
            vm |-> <<>>]
    /\ pc = "rb_launch"
    /\ errorMu = 0
    /\ ret = NoRet
    /\ op = NoOp
    /\ del = NoDel

\* the loop that starts one goroutine for every resource of the kind
RollbackLaunch ==
    /\ pc = "rb_launch"
    /\ worker' = [w \in DOMAIN worker |->
                    IF w \in OfKind(RollbackOrder[loc.idx])
                    THEN [worker[w] EXCEPT !.pc = "started"] ELSE worker[w]]
    /\ pc' = "rb_wait"
    /\ UNCHANGED <<kv, csp, req, kv0, loc, errorMu, ret, op, del>>

\* a goroutine acquires the semaphore and calls DelResource
DeleterAcquire(w) ==
    /\ w \in DOMAIN worker
    /\ worker[w].pc = "started"
    /\ Cardinality({u \in DOMAIN worker : worker[u].pc = "acquired"}) < maxConcurrency
    /\ worker' = [worker EXCEPT ![w].pc = "acquired", ![w].startAt = loc.now]
    /\ UNCHANGED <<kv, csp, req, kv0, pc, loc, errorMu, ret, op, del>>

\* DelResource returns; a failure is appended to the errors
DeleterDelete(w) ==
    /\ w \in DOMAIN worker
    /\ worker[w].pc = "acquired"
    /\ \E cspOk \in BOOLEAN :
         LET d == DelResource(kv.res, worker[w].key, cspOk)
         IN  /\ kv' = [kv EXCEPT !.res = d.res]
             /\ loc' = [loc EXCEPT !.rollbackErr = @ \/ d.err]
    /\ worker' = [worker EXCEPT ![w].pc = "done", ![w].doneAt = loc.now]
    /\ UNCHANGED <<csp, req, kv0, pc, errorMu, ret, op, del>>

\* wg.Wait returns: the next kind, the sleep before the vNets, or the return
RollbackWait ==
    /\ pc = "rb_wait"
    /\ PhaseDone(RollbackOrder[loc.idx])
    /\ IF loc.idx = Len(RollbackOrder)
       THEN /\ Return(loc.rollbackErr, "", 0)
            /\ UNCHANGED loc
       ELSE /\ loc' = [loc EXCEPT !.idx = @ + 1, !.wakeAt = loc.now + rollbackSleep]
            /\ pc' = IF loc.idx + 1 = Len(RollbackOrder) THEN "rb_sleep" ELSE "rb_launch"
            /\ UNCHANGED ret
    /\ UNCHANGED <<kv, csp, req, kv0, worker, errorMu, op, del>>

\* time.Sleep returns
RollbackWake ==
    /\ pc = "rb_sleep"
    /\ loc.now >= loc.wakeAt
    /\ pc' = "rb_launch"
    /\ UNCHANGED <<kv, csp, req, kv0, loc, worker, errorMu, ret, op, del>>

\* a second of the sleep passes; the time the deletes take is not counted,
\* which makes every measured gap the shortest one
Tick ==
    /\ pc = "rb_sleep"
    /\ loc.now < MaxTime
    /\ loc' = [loc EXCEPT !.now = @ + 1]
    /\ UNCHANGED <<kv, csp, req, kv0, pc, worker, errorMu, ret, op, del>>

NextRollback ==
    \/ RollbackLaunch
    \/ \E w \in 1..MaxCreated : DeleterAcquire(w)
    \/ \E w \in 1..MaxCreated : DeleterDelete(w)
    \/ RollbackWait
    \/ RollbackWake
    \/ Tick

SpecRollback == InitRollback /\ [][NextRollback]_vars

(* ------------------------------ the fan-outs --------------------------- *)

\* the most goroutines one fan-out is started with
MaxWorkers == 11

\* the fan-outs: the pre-validation and the reservation of CreateMciDynamic,
\* the VM objects and the VM creates of CreateMci, the status fetch of
\* GetMcisStatus, the deletes of rollbackCreatedResources
FanOuts == {"validate", "reserve", "object", "create", "status", "rollback"}

\* the fan-outs whose goroutines acquire a semaphore of maxConcurrency
HasSemaphore(fan) == fan \in {"validate", "rollback"}

\* a fan-out over n sub-groups, VMs or resources is about to start; the
\* goroutines of one fan-out are alike and are counted: worker.todo are not
\* started yet, worker.waiting are started, worker.running are in their
\* body, worker.finished have returned
InitFanOut ==
    /\ \E fan \in FanOuts : pc = fan
    /\ \E n \in 1..MaxWorkers :
         worker = [todo |-> n, waiting |-> 0, running |-> 0, finished |-> 0]
    /\ kv = [mci |-> NoMci, vm |-> [v \in {} |-> NoVm], subgroup |-> {},
             res |-> EmptyRes]
    /\ kv0 = kv
    /\ csp = [v \in {} |-> ""]
    /\ req = [entry |-> "dynamic", policy |-> PolicyContinue, option |-> "create",
            vm |-> <<>>]
    /\ loc = NoLoc
    /\ errorMu = 0
    /\ ret = NoRet
    /\ op = NoOp
    /\ del = NoDel

\* the loop of the fan-out starts the next goroutine
FanOutGo ==
    /\ pc \in FanOuts
    /\ worker.todo > 0
    /\ worker' = [worker EXCEPT !.todo = @ - 1, !.waiting = @ + 1]
    /\ UNCHANGED <<kv, csp, req, kv0, pc, loc, errorMu, ret, op, del>>

\* a started goroutine enters its body, after it has acquired the
\* semaphore where the fan-out has one
FanOutEnter ==
    /\ pc \in FanOuts
    /\ worker.waiting > 0
    /\ HasSemaphore(pc) => worker.running < maxConcurrency
    /\ worker' = [worker EXCEPT !.waiting = @ - 1, !.running = @ + 1]
    /\ UNCHANGED <<kv, csp, req, kv0, pc, loc, errorMu, ret, op, del>>

\* a goroutine returns, which releases the semaphore
FanOutLeave ==
    /\ pc \in FanOuts
    /\ worker.running > 0
    /\ worker' = [worker EXCEPT !.running = @ - 1, !.finished = @ + 1]
    /\ UNCHANGED <<kv, csp, req, kv0, pc, loc, errorMu, ret, op, del>>

\* wg.Wait returns
FanOutWait ==
    /\ pc \in FanOuts
    /\ worker.todo = 0 /\ worker.waiting = 0 /\ worker.running = 0
    /\ pc' = "done"
    /\ UNCHANGED <<kv, csp, req, kv0, loc, worker, errorMu, ret, op, del>>

NextFanOut == FanOutGo \/ FanOutEnter \/ FanOutLeave \/ FanOutWait

SpecFanOut == InitFanOut /\ [][NextFanOut]_vars

(* --------------------------- the provisioning log ---------------------- *)

\* the create requests that record at the same time, and the most events
\* (one per VM) one of them records
MaxRecorders == 2
MaxEvents == 2

\* the images of the recorded VMs ("" where the VM has none)
Images == {"", "ubuntu"}

\* the events RecordProvisioningEventsFromMci builds for the VMs of a spec
Events == [isSuccess : BOOLEAN, cspImageName : Images, timestamp : {0}]

\* the lists of events of one create request
EventLists == UNION {[1..n -> Events] : n \in 1..MaxEvents}

\* a create request that records: the events it has not recorded yet (the
\* first is the one in work) and the log it is about to save
Recorder(events) == [pc |-> "get", events |-> events, log |-> NoLog]

\* Create requests have returned their MCIs and record the events of their
\* VMs, all of one spec; the spec has no log yet or one with a failure
InitLog ==
    /\ \E n \in 1..MaxRecorders : \E lists \in [1..n -> EventLists] :
         worker = [r \in 1..n |-> Recorder(lists[r])]
    /\ \E failures \in 0..1 :
         kv = [log |-> IF failures = 0 THEN NoLog
                       ELSE [NewLog EXCEPT !.failureCount = failures,
                                            !.failureTimestamps = <<0>>,
                                            !.failureImages = <<"ubuntu">>]]
    /\ kv0 = kv
    /\ csp = [v \in {} |-> ""]
    /\ req = [entry |-> "static", policy |-> PolicyContinue, option |-> "create",
              vm |-> <<>>]
    /\ pc = "record"
    /\ loc = NoLoc
    /\ errorMu = 0
    /\ ret = NoRet
    /\ op = NoOp
    /\ del = NoDel

\* the recorder goes on with its next event
NextEvent(w) ==
    [w EXCEPT !.events = Tail(@),
              !.pc = IF Len(w.events) = 1 THEN "done" ELSE "get",
              !.log = NoLog]

\* RecordProvisioningEvent up to its save: the log is read, or a new one is
\* started with the spec that GetSpec returns, and the event is applied;
\* an error of GetSpec and a success without failures end the call
RecordGet(r) ==
    /\ r \in DOMAIN worker
    /\ worker[r].pc = "get"
    /\ \E specOk \in BOOLEAN :
         LET existingLog == kv.log
             recorded == RecordEvent(IF existingLog.exists THEN existingLog ELSE NewLog,
                                     Head(worker[r].events))
         IN  IF (~existingLog.exists /\ ~specOk) \/ ~recorded.save
             THEN worker' = [worker EXCEPT ![r] = NextEvent(@)]
             ELSE worker' = [worker EXCEPT ![r].pc = "save", ![r].log = recorded.log]
    /\ UNCHANGED <<kv, csp, req, kv0, pc, loc, errorMu, ret, op, del>>

\* SaveProvisioningLog: the log is put under the key of the spec
RecordSave(r) ==
    /\ r \in DOMAIN worker
    /\ worker[r].pc = "save"
    /\ kv' = [kv EXCEPT !.log = worker[r].log]
    /\ worker' = [worker EXCEPT ![r] = NextEvent(@)]
    /\ UNCHANGED <<csp, req, kv0, pc, loc, errorMu, ret, op, del>>

\* the first n elements of a list that has more
Truncated(list, n) == IF Len(list) > n THEN SubSeq(list, 1, n) ELSE list

\* ValidateProvisioningLogIntegrity: a log whose counts differ from the
\* number of its timestamps is saved with the timestamps cut to the counts
ValidateProvisioningLogIntegrity ==
    /\ op.name = ""
    /\ op' = [op EXCEPT !.name = "ValidateProvisioningLogIntegrity"]
    /\ LET testLog == kv.log
       IN  kv' = IF /\ testLog.exists
                    /\ testLog.failureCount + testLog.successCount
                         # Len(testLog.failureTimestamps) + Len(testLog.successTimestamps)
                 THEN [kv EXCEPT !.log =
                          [testLog EXCEPT
                             !.failureTimestamps = Truncated(@, testLog.failureCount),
                             !.successTimestamps = Truncated(@, testLog.successCount)]]
                 ELSE kv
    /\ UNCHANGED <<csp, req, kv0, pc, loc, worker, errorMu, ret>>
    /\ UNCHANGED del

NextLog ==
    \/ \E r \in 1..MaxRecorders : RecordGet(r)
    \/ \E r \in 1..MaxRecorders : RecordSave(r)
    \/ ValidateProvisioningLogIntegrity

SpecLog == InitLog /\ [][NextLog]_vars

(* ---------------------------- the risk analysis ------------------------ *)

\* the most failed and succeeded images of a log, and the most events of a
\* kind beyond one per image
MaxFailedImages == 10
MaxSucceededImages == 2
MaxExtra == 2

\* getRiskValue
getRiskValue(riskLevel) ==
    IF riskLevel = "high" THEN 3
    ELSE IF riskLevel = "medium" THEN 2
    ELSE IF riskLevel = "low" THEN 1
    ELSE 0

\* failureRate >= num / den, for the failureRate of AnalyzeProvisioningRiskDetailed:
\* the quotient of two counts this small is rounded to the same float64 as
\* the literal it is compared with exactly when the two are equal
FailureRateAtLeast(totalFailures, totalSuccesses, num, den) ==
    totalFailures * den >= num * (totalFailures + totalSuccesses)

\* the level analyzeSpecRisk gives
SpecRiskLevel(failedImageCount, succeededImageCount, totalFailures, totalSuccesses) ==
    IF failedImageCount >= 10 THEN "high"
    ELSE IF failedImageCount >= 5 THEN "medium"
    ELSE IF failedImageCount >= 3 /\ succeededImageCount = 0 THEN "medium"
    ELSE IF FailureRateAtLeast(totalFailures, totalSuccesses, 4, 5) THEN "high"
    ELSE IF FailureRateAtLeast(totalFailures, totalSuccesses, 1, 2) THEN "medium"
    ELSE "low"

\* analyzeSpecRisk
analyzeSpecRisk(failedImageCount, succeededImageCount, totalFailures, totalSuccesses) ==
    [level |-> SpecRiskLevel(failedImageCount, succeededImageCount,
                             totalFailures, totalSuccesses),
     failedImageCount |-> failedImageCount,
     succeededImageCount |-> succeededImageCount,
     totalFailures |-> totalFailures, totalSuccesses |-> totalSuccesses]

\* analyzeImageRisk
analyzeImageRisk(imageHasFailed, imageHasSucceeded, isNewCombination) ==
    [level |-> IF imageHasFailed THEN "high" ELSE "low",
     hasFailedWithSpec |-> imageHasFailed,
     hasSucceededWithSpec |-> imageHasSucceeded,
     isNewCombination |-> isNewCombination]

\* the primary risk factor of determineOverallRisk without its special
\* cases, for comparison
PrimaryRiskFactorPlain(specRisk, imageRisk) ==
    IF getRiskValue(specRisk.level) >= getRiskValue(imageRisk.level)
    THEN "spec" ELSE "image"

\* the primary risk factor of determineOverallRisk
PrimaryRiskFactor(specRisk, imageRisk) ==
    IF specRisk.level = "low" /\ imageRisk.level = "low" THEN "none"
    ELSE IF imageRisk.isNewCombination /\ specRisk.level # "low" THEN "combination"
    ELSE IF getRiskValue(specRisk.level) >= getRiskValue(imageRisk.level) THEN "spec"
    ELSE "image"

\* determineOverallRisk with the image named when the levels are equal,
\* for comparison
determineOverallRiskImageFirst(specRisk, imageRisk) ==
    [level |-> IF getRiskValue(specRisk.level) >= getRiskValue(imageRisk.level)
               THEN specRisk.level ELSE imageRisk.level,
     primaryRiskFactor |-> IF getRiskValue(specRisk.level) > getRiskValue(imageRisk.level)
                           THEN "spec" ELSE "image"]

\* determineOverallRisk
determineOverallRisk(specRisk, imageRisk) ==
    [level |-> IF getRiskValue(specRisk.level) >= getRiskValue(imageRisk.level)
               THEN specRisk.level ELSE imageRisk.level,
     primaryRiskFactor |-> PrimaryRiskFactor(specRisk, imageRisk)]

\* what AnalyzeProvisioningRiskDetailed returns without a history
NoHistory ==
    [specRisk |-> [level |-> "low", failedImageCount |-> 0, succeededImageCount |-> 0,
                   totalFailures |-> 0, totalSuccesses |-> 0],
     imageRisk |-> [level |-> "low", hasFailedWithSpec |-> FALSE,
                    hasSucceededWithSpec |-> FALSE, isNewCombination |-> TRUE],
     overallRisk |-> [level |-> "low", primaryRiskFactor |-> "none"]]

\* AnalyzeProvisioningRiskDetailed on the log of the spec
AnalyzeProvisioningRiskDetailed(provisioningLog, cspImageName) ==
    IF ~provisioningLog.exists
       \/ provisioningLog.failureCount + provisioningLog.successCount = 0
    THEN NoHistory
    ELSE LET imageHasFailed == cspImageName \in Range(provisioningLog.failureImages)
             imageHasSucceeded == cspImageName \in Range(provisioningLog.successImages)
             specRisk == analyzeSpecRisk(Len(provisioningLog.failureImages),
                                         Len(provisioningLog.successImages),
                                         provisioningLog.failureCount,
                                         provisioningLog.successCount)
             imageRisk == analyzeImageRisk(imageHasFailed, imageHasSucceeded,
                                           ~imageHasFailed /\ ~imageHasSucceeded)
         IN  [specRisk |-> specRisk, imageRisk |-> imageRisk,
              overallRisk |-> determineOverallRisk(specRisk, imageRisk)]

\* the name of the i-th image
ImageName(i) == "image-" \o Itoa(i)

\* a log with the images 1..nF failed in failures events and nS images
\* from the image first on succeeded in successes events
HistoryLog(nF, nS, first, failures, successes) ==
    [exists |-> TRUE, corrupted |-> FALSE,
     failureCount |-> failures, successCount |-> successes,
     failureTimestamps |-> [i \in 1..failures |-> 0],
     successTimestamps |-> [i \in 1..successes |-> 0],
     failureImages |-> [i \in 1..nF |-> ImageName(i)],
     successImages |-> [i \in 1..nS |-> ImageName(first + i - 1)]]

\* the logs of a spec: a log is saved first with a failure, every image of
\* its lists stands for at least one event
HistoryLogs ==
    {NoLog, CorruptedLog} \cup
    {HistoryLog(nF, nS, first, failures, successes) :
        nF \in 0..MaxFailedImages, nS \in 0..MaxSucceededImages,
        first \in {1, MaxFailedImages + 1},
        failures \in 1..(MaxFailedImages + MaxExtra),
        successes \in 0..(MaxSucceededImages + MaxExtra)}

\* the risk of a spec with an image is asked for
InitRisk ==
    /\ \E provisioningLog \in HistoryLogs :
         /\ provisioningLog.failureCount >= Len(provisioningLog.failureImages)
         /\ provisioningLog.failureCount <= Len(provisioningLog.failureImages) + MaxExtra
         /\ provisioningLog.successCount >= Len(provisioningLog.successImages)
         /\ provisioningLog.successCount <= Len(provisioningLog.successImages) + MaxExtra
         /\ kv = [log |-> provisioningLog]
    /\ \E i \in 1..(MaxFailedImages + 2) :
         req = [specId |-> "spec", cspImageName |-> ImageName(i)]
    /\ kv0 = kv
    /\ csp = [v \in {} |-> ""]
    /\ pc = "risk"
    /\ loc = NoLoc
    /\ worker = <<>>
    /\ errorMu = 0
    /\ ret = NoRet
    /\ op = NoOp
    /\ del = NoDel

\* a call of AnalyzeProvisioningRiskDetailed: the log is read from the store
AnalyzeRisk ==
    /\ pc = "risk"
    /\ pc' = "done"
    /\ kv' = GetProvisioningLog(kv).kv
    /\ ret' = [done |-> TRUE, err |-> FALSE,
               risk |-> AnalyzeProvisioningRiskDetailed(GetProvisioningLog(kv).log,
                                                        req.cspImageName)]
    /\ UNCHANGED <<csp, req, kv0, loc, worker, errorMu, op, del>>

\* the review of one VM request: the risk is analysed when the spec was
\* found, a high risk or a failed lookup makes the creation not viable
ReviewVm(k, cspImageName, specFound, lookupsOk) ==
    LET risk == IF specFound
                THEN AnalyzeProvisioningRiskDetailed(GetProvisioningLog(k).log,
                                                     cspImageName)
                ELSE NoHistory
    IN  [kv |-> IF specFound THEN GetProvisioningLog(k).kv ELSE k,
         risk |-> risk,
         canCreate |-> specFound /\ lookupsOk /\ risk.overallRisk.level # "high"]

\* ReviewMciDynamicReq on a request of one sub-group
ReviewMciDynamicReq ==
    /\ pc = "risk"
    /\ pc' = "reviewed"
    /\ \E specFound \in BOOLEAN, lookupsOk \in BOOLEAN :
         LET vmReview == ReviewVm(kv, req.cspImageName, specFound, lookupsOk)
         IN  /\ kv' = vmReview.kv
             /\ ret' = [done |-> TRUE, err |-> FALSE, risk |-> vmReview.risk,
                        creationViable |-> vmReview.canCreate]
    /\ UNCHANGED <<csp, req, kv0, loc, worker, errorMu, op, del>>

NextRisk == AnalyzeRisk \/ ReviewMciDynamicReq

SpecRisk == InitRisk /\ [][NextRisk]_vars

(* ---------------- a create of a spec with a failure history ------------ *)

\* the log of the spec after an earlier create whose one VM failed at the
\* CSP: one failure, no success, no image
FailedBefore ==
    [NewLog EXCEPT !.failureCount = 1, !.failureTimestamps = <<0>>]

\* a dynamic create request arrives while the log of its spec holds the
\* failure; a request of more than one sub-group comes with the continue
\* policy, at once, in a namespace that has the shared resources
InitGate ==
    /\ \E policy \in Policies, option \in Options :
         \E vmReqs \in DynamicRequests :
            /\ Len(vmReqs) > 1 => (policy = PolicyContinue /\ option = "create")
            /\ req = [entry |-> "dynamic", policy |-> policy, option |-> option,
                      vm |-> Named(vmReqs)]
    /\ \E preloaded \in BOOLEAN :
         /\ Len(req.vm) > 1 => preloaded
         /\ kv = [mci |-> NoMci, vm |-> [v \in {} |-> NoVm], subgroup |-> {},
                  res |-> IF preloaded THEN PreloadedRes ELSE EmptyRes,
                  log |-> FailedBefore]
    /\ kv0 = kv
    /\ csp = [v \in {} |-> ""]
    /\ pc = "CreateMciDynamic"
    /\ loc = NoLoc
    /\ worker = <<>>
    /\ errorMu = 0
    /\ ret = NoRet
    /\ op = NoOp
    /\ del = NoDel

SpecGate == InitGate /\ [][Next]_vars

(* ------------------------ the requests of a call ----------------------- *)

\* the requests FetchVmStatus makes at most
retrycheck == 2

\* the attempts ProvisionDataDisk makes to attach the disk
retry == 3

\* the seconds slept after a request that is tried again
retrySleep == 5

\* the VM of the call
RetryVm == VmName(SubGroupName(1), 1)

\* the CSP requests of the calls
GetVmStatus == "GET /vmstatus"
PostDisk == "POST /disk"
PutDiskAttach == "PUT /disk/attach"

\* what GET /vmstatus answers: an error, an empty status, a valid status
\* or another word
StatusReplies == {"error", "", StatusRunning, StatusSuspending, StatusSuspended,
                  StatusCreating, StatusResuming, StatusTerminated, "Booting"}

\* the target action of a VM with the target status it is given
Targets == {<<ActionCreate, StatusRunning>>, <<ActionTerminate, StatusTerminated>>,
            <<ActionResume, StatusRunning>>, <<ActionReboot, StatusRunning>>,
            <<ActionComplete, StatusComplete>>}

\* a request is sent at the time of the clock and answered
Request(path, reply) == Append(worker, [path |-> path, reply |-> reply, at |-> loc.now])

\* FetchVmStatus or ProvisionDataDisk is called for a VM of the store
InitRetry ==
    /\ \E status \in {StatusCreating, StatusRunning, StatusFailed, StatusTerminated},
          target \in Targets, id \in {"", "csp-vm"} :
         kv = [vm |-> Put([v \in {} |-> NoVm], RetryVm,
                          [TbVmInfo(status, target[2], target[1], SubGroupName(1),
                                    LifeVmReq(SubGroupName(1)))
                             EXCEPT !.cspResourceName = id])]
    /\ pc \in {"FetchVmStatus", "ProvisionDataDisk"}
    /\ kv0 = kv
    /\ csp = [v \in {} |-> ""]
    /\ req = [vmId |-> RetryVm]
    /\ loc = [NoLoc EXCEPT !.idx = 0]
    /\ worker = <<>>
    /\ errorMu = 0
    /\ ret = NoRet
    /\ op = [NoOp EXCEPT !.name = pc]
    /\ del = NoDel

\* FetchVmStatus up to its request loop: a VM without a CSP id whose
\* action is neither create nor terminate is an error; the CSP is asked
\* for a VM with a CSP id that is not Terminated
FetchVmStatusStart ==
    /\ pc = "FetchVmStatus"
    /\ LET temp == kv.vm[req.vmId]
       IN  IF temp.targetAction \notin {ActionCreate, ActionTerminate}
              /\ temp.cspResourceName = ""
           THEN /\ pc' = "done"
                /\ ret' = [ret EXCEPT !.done = TRUE, !.err = TRUE]
           ELSE IF temp.status # StatusTerminated /\ temp.cspResourceName # ""
           THEN /\ pc' = "vmstatus"
                /\ ret' = [ret EXCEPT !.status = ""]
           ELSE /\ pc' = "fetch_end"
                /\ ret' = [ret EXCEPT !.status = StatusUndefined]
    /\ UNCHANGED <<kv, csp, req, kv0, loc, worker, errorMu, op, del>>

\* one pass of the loop: the request; an error ends the loop with
\* Undefined, a status that is not empty ends it, an empty one is slept on
VmStatusGet ==
    /\ pc = "vmstatus"
    /\ loc.idx < retrycheck
    /\ \E reply \in StatusReplies :
         /\ worker' = Request(GetVmStatus, reply)
         /\ IF reply = "error"
            THEN /\ ret' = [ret EXCEPT !.status = StatusUndefined]
                 /\ pc' = "fetch_end"
                 /\ loc' = loc
            ELSE IF reply # ""
            THEN /\ ret' = [ret EXCEPT !.status = reply]
                 /\ pc' = "fetch_end"
                 /\ loc' = loc
            ELSE /\ ret' = ret
                 /\ pc' = "vmstatus_sleep"
                 /\ loc' = [loc EXCEPT !.wakeAt = loc.now + retrySleep]
    /\ UNCHANGED <<kv, csp, req, kv0, errorMu, op, del>>

\* the sleep of the loop ends and the loop goes on or is over
VmStatusSleep ==
    /\ pc = "vmstatus_sleep"
    /\ loc' = [loc EXCEPT !.now = loc.wakeAt, !.idx = @ + 1]
    /\ pc' = IF loc.idx + 1 < retrycheck THEN "vmstatus" ELSE "fetch_end"
    /\ UNCHANGED <<kv, csp, req, kv0, worker, errorMu, ret, op, del>>

\* FetchVmStatus after the loop: the status is corrected, the action is
\* finished and the VM record is written
FetchVmStatusEnd ==
    /\ pc = "fetch_end"
    /\ LET temp == kv.vm[req.vmId]
           info == FinishAction(temp, CorrectedStatus(temp, ret.status))
       IN  /\ kv' = [kv EXCEPT !.vm = UpdateVmInfo(kv.vm, req.vmId,
                                                   ApplyStatus(temp, info))]
           /\ ret' = [ret EXCEPT !.done = TRUE, !.err = info.err,
                                 !.status = info.status]
    /\ pc' = "done"
    /\ UNCHANGED <<csp, req, kv0, loc, worker, errorMu, op, del>>

\* ProvisionDataDisk: CreateDataDisk asks the CSP for the disk; its error
\* is returned
ProvisionDataDiskCreate ==
    /\ pc = "ProvisionDataDisk"
    /\ \E reply \in {"error", "ok"} :
         /\ worker' = Request(PostDisk, reply)
         /\ IF reply = "error"
            THEN /\ pc' = "done"
                 /\ ret' = [ret EXCEPT !.done = TRUE, !.err = TRUE]
            ELSE /\ pc' = "attach"
                 /\ ret' = ret
    /\ UNCHANGED <<kv, csp, req, kv0, loc, errorMu, op, del>>

\* one pass of its loop: AttachDetachDataDisk asks the CSP to attach the
\* disk; the VM is returned when it does, an error is slept on
ProvisionDataDiskAttach ==
    /\ pc = "attach"
    /\ loc.idx < retry
    /\ \E reply \in {"error", "ok"} :
         /\ worker' = Request(PutDiskAttach, reply)
         /\ IF reply = "ok"
            THEN /\ pc' = "done"
                 /\ ret' = [ret EXCEPT !.done = TRUE, !.err = FALSE]
                 /\ kv' = [kv EXCEPT !.vm[req.vmId].dataDiskIds = Append(@, "disk")]
                 /\ loc' = loc
            ELSE /\ pc' = "attach_sleep"
                 /\ ret' = ret
                 /\ kv' = kv
                 /\ loc' = [loc EXCEPT !.wakeAt = loc.now + retrySleep]
    /\ UNCHANGED <<csp, req, kv0, errorMu, op, del>>

\* the sleep of its loop ends; after the last attempt the error variable
\* of CreateDataDisk, which is nil, is returned
ProvisionDataDiskSleep ==
    /\ pc = "attach_sleep"
    /\ loc' = [loc EXCEPT !.now = loc.wakeAt, !.idx = @ + 1]
    /\ IF loc.idx + 1 < retry
       THEN /\ pc' = "attach"
            /\ ret' = ret
       ELSE /\ pc' = "done"
            /\ ret' = [ret EXCEPT !.done = TRUE, !.err = FALSE]
    /\ UNCHANGED <<kv, csp, req, kv0, worker, errorMu, op, del>>

NextRetry ==
    \/ FetchVmStatusStart
    \/ VmStatusGet
    \/ VmStatusSleep
    \/ FetchVmStatusEnd
    \/ ProvisionDataDiskCreate
    \/ ProvisionDataDiskAttach
    \/ ProvisionDataDiskSleep

SpecRetry == InitRetry /\ [][NextRetry]_vars

(* ------------------- the K8s version recommendation -------------------- *)

\* the most versions the table of a provider and region lists
MaxVersions == 3

\* a string is the sequence of its characters; the characters in their
\* order
Chars == <<".", "1", "2", "V", "v">>

Ord(c) == CHOOSE i \in DOMAIN Chars : Chars[i] = c

Str(s) == [i \in 1..Len(s) |-> s[i]]

\* the value of a version that was not found
StrEmpty == <<"V", "V">>

\* strings.EqualFold and strings.HasPrefix
ToLowerChar(c) == IF c = "V" THEN "v" ELSE c

EqualFold(s, t) ==
    /\ Len(s) = Len(t)
    /\ \A i \in DOMAIN s : ToLowerChar(s[i]) = ToLowerChar(t[i])

HasPrefix(s, prefix) ==
    /\ Len(prefix) <= Len(s)
    /\ \A i \in DOMAIN prefix : s[i] = prefix[i]

\* common.FilterDigitsAndDots: the digits and dots of the string
FilterDigitsAndDots(s) == SelectSeq(s, LAMBDA c : c \in {".", "1", "2"})

\* common.CompareVersions: the order of two filtered versions as strings,
\* -1, 0 or 1
RECURSIVE CompareVersions(_, _)
CompareVersions(version1, version2) ==
    IF version1 = <<>> /\ version2 = <<>> THEN 0
    ELSE IF version1 = <<>> THEN -1
    ELSE IF version2 = <<>> THEN 1
    ELSE IF Ord(Head(version1)) < Ord(Head(version2)) THEN -1
    ELSE IF Ord(Head(version1)) > Ord(Head(version2)) THEN 1
    ELSE CompareVersions(Tail(version1), Tail(version2))

\* the loop of getK8sRecommendVersion without a requested version: a
\* version above the recommended one replaces it
RECURSIVE RecommendHighest(_, _)
RecommendHighest(availableVersion, recVersion) ==
    IF availableVersion = <<>> THEN recVersion
    ELSE RecommendHighest(
             Tail(availableVersion),
             IF CompareVersions(FilterDigitsAndDots(recVersion),
                                FilterDigitsAndDots(Head(availableVersion))) < 0
             THEN Head(availableVersion) ELSE recVersion)

\* the loop of getK8sRecommendVersion with a requested version: the first
\* version of the list that equals it, or whose filtered form begins with
\* its filtered form and is then recommended
RECURSIVE RecommendRequested(_, _)
RecommendRequested(availableVersion, reqVersion) ==
    IF availableVersion = <<>> THEN StrEmpty
    ELSE IF EqualFold(reqVersion, Head(availableVersion))
    THEN Head(availableVersion)
    ELSE IF HasPrefix(FilterDigitsAndDots(Head(availableVersion)),
                      FilterDigitsAndDots(reqVersion))
    THEN FilterDigitsAndDots(Head(availableVersion))
    ELSE RecommendRequested(Tail(availableVersion), reqVersion)

\* getK8sRecommendVersion on the versions of the table
getK8sRecommendVersion(availableVersion, reqVersion) ==
    LET recVersion == IF reqVersion = <<>>
                      THEN RecommendHighest(availableVersion, StrEmpty)
                      ELSE RecommendRequested(availableVersion, reqVersion)
    IN  [err |-> EqualFold(recVersion, StrEmpty), version |-> recVersion]

\* the version ids of a table and the versions asked for
VersionIds == {<<"1", ".", "1">>, <<"1", ".", "2">>, <<"v", "1", ".", "2">>,
               <<"2", ".", "1">>, <<"1", ".", "1", "2">>}

ReqVersions == {<<>>, <<"1">>, <<"1", ".", "1">>, <<"V", "1", ".", "2">>, <<"2", ".", "2">>}

\* a version is asked for, or none, of a provider and region whose table
\* lists some versions
InitK8s ==
    /\ \E n \in 0..MaxVersions : \E availableVersion \in [1..n -> VersionIds] :
         kv = [availableVersion |-> Str(availableVersion)]
    /\ \E reqVersion \in ReqVersions : req = [version |-> reqVersion]
    /\ kv0 = kv
    /\ csp = [v \in {} |-> ""]
    /\ pc = "getK8sRecommendVersion"
    /\ loc = NoLoc
    /\ worker = <<>>
    /\ errorMu = 0
    /\ ret = NoRet
    /\ op = NoOp
    /\ del = NoDel

\* a call of getK8sRecommendVersion; the table of the provider and region
\* is found or not
RecommendVersion ==
    /\ pc = "getK8sRecommendVersion"
    /\ pc' = "done"
    /\ \E found \in BOOLEAN :
         LET rec == getK8sRecommendVersion(kv.availableVersion, req.version)
         IN  ret' = IF found
                    THEN [done |-> TRUE, err |-> rec.err,
                          version |-> IF rec.err THEN <<>> ELSE rec.version]
                    ELSE [done |-> TRUE, err |-> TRUE, version |-> <<>>]
    /\ UNCHANGED <<kv, csp, req, kv0, loc, worker, errorMu, op, del>>

NextK8s == RecommendVersion

SpecK8s == InitK8s /\ [][NextK8s]_vars

(* -------------------- two creates of the same MCI name ----------------- *)

\* the callers of CreateMciDynamic with the same namespace and MCI name
MaxCallers == 2

\* a caller: where it is in CreateMciDynamic, the VMs it asks for and the
\* VM records it has written
Caller(size) == [pc |-> "CreateMciDynamic", size |-> size, written |-> 0]

\* the MCI record and a VM record as a caller writes them; uid is the Uid
\* the caller generated
MciOf(uid, status) == [exists |-> TRUE, uid |-> uid, status |-> status]

VmOf(uid, status) == [uid |-> uid, status |-> status]

\* the callers arrive at a namespace without the MCI
InitNames ==
    /\ worker \in [1..MaxCallers -> {Caller(size) : size \in 1..MaxVms}]
    /\ kv = [mci |-> [exists |-> FALSE, uid |-> 0, status |-> ""],
             vm |-> [v \in {} |-> VmOf(0, "")]]
    /\ kv0 = kv
    /\ csp = [v \in {} |-> ""]
    /\ req = [name |-> "mci"]
    /\ pc = "callers"
    /\ loc = NoLoc
    /\ errorMu = 0
    /\ ret = NoRet
    /\ op = NoOp
    /\ del = NoDel

\* CheckMci in CreateMciDynamic: an existing MCI ends the call with an
\* error
NamesCheckMci(i) ==
    /\ worker[i].pc = "CreateMciDynamic"
    /\ worker' = [worker EXCEPT ![i].pc = IF kv.mci.exists THEN "rejected" ELSE "put_mci"]
    /\ UNCHANGED <<kv, csp, req, kv0, pc, loc, errorMu, ret, op, del>>

\* the MCI record is put in status Preparing
NamesPutMci(i) ==
    /\ worker[i].pc = "put_mci"
    /\ kv' = [kv EXCEPT !.mci = MciOf(i, StatusPreparing)]
    /\ worker' = [worker EXCEPT ![i].pc = "put_vm"]
    /\ UNCHANGED <<csp, req, kv0, pc, loc, errorMu, ret, op, del>>

\* one VM record is put in status Preparing; after the last one the
\* resources are prepared and CreateMci is called
NamesPutVm(i) ==
    /\ worker[i].pc = "put_vm"
    /\ LET n == worker[i].written + 1
       IN  /\ kv' = [kv EXCEPT !.vm = Put(@, VmName(SubGroupName(1), n),
                                         VmOf(i, StatusPreparing))]
           /\ worker' = [worker EXCEPT ![i].written = n,
                                       ![i].pc = IF n = worker[i].size
                                                 THEN "CreateMci" ELSE "put_vm"]
    /\ UNCHANGED <<csp, req, kv0, pc, loc, errorMu, ret, op, del>>

\* CreateMci: an MCI in Preparing or Prepared is taken for the prepared
\* one and provisioned, another existing MCI is an error
NamesCreateMci(i) ==
    /\ worker[i].pc = "CreateMci"
    /\ IF kv.mci.exists /\ kv.mci.status \notin {StatusPrepared, StatusPreparing}
       THEN /\ worker' = [worker EXCEPT ![i].pc = "rejected"]
            /\ kv' = kv
       ELSE /\ worker' = [worker EXCEPT ![i].pc = "provisioning"]
            /\ kv' = [kv EXCEPT !.mci = MciOf(i, StatusCreating)]
    /\ UNCHANGED <<csp, req, kv0, pc, loc, errorMu, ret, op, del>>

NextNames ==
    \/ \E i \in 1..MaxCallers : NamesCheckMci(i)
    \/ \E i \in 1..MaxCallers : NamesPutMci(i)
    \/ \E i \in 1..MaxCallers : NamesPutVm(i)
    \/ \E i \in 1..MaxCallers : NamesCreateMci(i)

SpecNames == InitNames /\ [][NextNames]_vars

(* ------------- two requests that share the default resources ---------- *)

\* a request of CreateMciDynamic on the shared connection: where its
\* reservation is, the resource kind it is at, the resources it has created
\* and the resources GetResource has found for it
Reserving == [pc |-> "get", kind |-> 1, created |-> <<>>, found |-> {}]

\* the resources of the VM request getVmReqFromDynamicReq returns
SharedVmReq ==
    [imageId |-> ImageId, vNetId |-> SharedResourceName,
     sshKeyId |-> SharedResourceName, securityGroupIds |-> <<SharedResourceName>>,
     dataDiskIds |-> <<>>]

\* The requests arrive at a namespace that holds the image and some of the
\* shared resources of the connection.
InitShared ==
    /\ worker \in [1..MaxCallers -> {Reserving}]
    /\ \E kinds \in SUBSET Range(ReserveKinds) :
         kv = [res |-> [r \in {ResKey(kind, SharedResourceName) : kind \in kinds}
                               \cup {ResKey(StrImage, ImageId)} |-> NewResource]]
    /\ kv0 = kv
    /\ csp = [v \in {} |-> ""]
    /\ req = [name |-> "mci"]
    /\ pc = "requests"
    /\ loc = NoLoc
    /\ errorMu = 0
    /\ ret = NoRet
    /\ op = NoOp
    /\ del = NoDel

\* the reservation of request i goes on after the resource kind it is at
SharedNext(i, found, created) ==
    worker' = [worker EXCEPT
                 ![i].pc = IF worker[i].kind < Len(ReserveKinds) THEN "get" ELSE "collect",
                 ![i].kind = IF worker[i].kind < Len(ReserveKinds) THEN @ + 1 ELSE @,
                 ![i].found = found, ![i].created = created]

\* getVmReqFromDynamicReq: GetResource on the shared resource of a kind
SharedGet(i) ==
    /\ worker[i].pc = "get"
    /\ LET key == ResKey(ReserveKinds[worker[i].kind], SharedResourceName)
       IN  IF key \in DOMAIN kv.res
           THEN SharedNext(i, worker[i].found \cup {key}, worker[i].created)
           ELSE worker' = [worker EXCEPT ![i].pc = "check"]
    /\ UNCHANGED <<kv, csp, req, kv0, pc, loc, errorMu, ret, op, del>>

\* CreateSharedResource is called: it is refused when the resource is
\* registered by now, otherwise the create request is sent to the CSP
SharedCheck(i) ==
    /\ worker[i].pc = "check"
    /\ worker' = [worker EXCEPT ![i].pc =
                     IF CheckResource(kv.res, ReserveKinds[worker[i].kind])
                     THEN "failed" ELSE "post"]
    /\ UNCHANGED <<kv, csp, req, kv0, pc, loc, errorMu, ret, op, del>>

\* CreateSharedResource: the answer of the CSP; the created resource is
\* tracked in the result of the goroutine
SharedPost(i) ==
    /\ worker[i].pc = "post"
    /\ \E cspOk \in BOOLEAN :
         LET kind == ReserveKinds[worker[i].kind]
             r == CreateSharedResource(kv.res, kind, cspOk)
         IN  /\ kv' = [kv EXCEPT !.res = r.res]
             /\ IF r.err
                THEN worker' = [worker EXCEPT ![i].pc = "failed"]
                ELSE SharedNext(i, worker[i].found,
                                Append(worker[i].created,
                                       ResKey(kind, SharedResourceName)))
    /\ UNCHANGED <<csp, req, kv0, pc, loc, errorMu, ret, op, del>>

\* The results of request i are collected.  Another sub-group of the
\* request may have failed its lookups (it has created nothing): then the
\* created resources are rolled back, otherwise CreateMci is called.
SharedCollect(i) ==
    /\ worker[i].pc = "collect"
    /\ \E hasError \in BOOLEAN :
         worker' = [worker EXCEPT ![i].pc = IF hasError THEN "rollback" ELSE "CreateMci"]
    /\ UNCHANGED <<kv, csp, req, kv0, pc, loc, errorMu, ret, op, del>>

\* rollbackCreatedResources of request i, then the error is returned
SharedRollback(i) ==
    /\ worker[i].pc = "rollback"
    /\ \E failing \in SUBSET Range(worker[i].created) :
         kv' = [kv EXCEPT !.res =
                  rollbackCreatedResources(kv.res, worker[i].created, failing).res]
    /\ worker' = [worker EXCEPT ![i].pc = "returned"]
    /\ UNCHANGED <<csp, req, kv0, pc, loc, errorMu, ret, op, del>>

\* CreateMci of request i: CreateVm looks the resources of the VM up and,
\* with all of them registered, creates the VM and adds its associations
SharedCreateVm(i) ==
    /\ worker[i].pc = "CreateMci"
    /\ IF CreateVmLookups(kv.res, SharedVmReq) = "post"
       THEN /\ kv' = [kv EXCEPT !.res = AddVmAssociations(kv.res, SharedVmReq, i)]
            /\ worker' = [worker EXCEPT ![i].pc = "created"]
       ELSE /\ kv' = kv
            /\ worker' = [worker EXCEPT ![i].pc = "failed"]
    /\ UNCHANGED <<csp, req, kv0, pc, loc, errorMu, ret, op, del>>

NextShared ==
    \/ \E i \in 1..MaxCallers : SharedGet(i)
    \/ \E i \in 1..MaxCallers : SharedCheck(i)
    \/ \E i \in 1..MaxCallers : SharedPost(i)
    \/ \E i \in 1..MaxCallers : SharedCollect(i)
    \/ \E i \in 1..MaxCallers : SharedRollback(i)
    \/ \E i \in 1..MaxCallers : SharedCreateVm(i)

SpecShared == InitShared /\ [][NextShared]_vars

(* ---------------- the VM count of a request and its VMs --------------- *)

\* the values of subGroupSize in a request: missing, zero, negative, not a
\* number, and numbers
CountSizes == {"", "0", "-1", "x", "1", "2"}

\* CreateMci is called with up to MaxSubGroups sub-group requests
InitCount ==
    /\ \E n \in 1..MaxSubGroups :
         \E r \in [1..n -> {TbVmReq("g", s, SharedResourceName, SharedResourceName) :
                              s \in CountSizes}] :
            req = [entry |-> "static", policy |-> PolicyContinue, option |-> "create",
                   vm |-> Named(r)]
    /\ kv = [mci |-> NoMci, vm |-> [v \in {} |-> NoVm], subgroup |-> {},
             res |-> PreloadedRes]
    /\ kv0 = kv
    /\ csp = [v \in {} |-> ""]
    /\ pc = "CreateMci"
    /\ loc = [idx |-> 1, vmStartIndex |-> 1, vmConfigs |-> <<>>, totalVmCount |-> 0]
    /\ worker = <<>>
    /\ errorMu = 0
    /\ ret = NoRet
    /\ op = NoOp
    /\ del = NoDel

\* CreateMci counts the VMs of the request
CountTotal ==
    /\ pc = "CreateMci"
    /\ loc' = [loc EXCEPT !.totalVmCount = TotalVmCount(req.vm)]
    /\ pc' = "mci_build"
    /\ UNCHANGED <<kv, csp, req, kv0, worker, errorMu, ret, op, del>>

\* One round of the loop over the requests: the connection is looked up and
\* the VM configurations of the sub-group are built
CountBuild ==
    /\ pc = "mci_build"
    /\ \E connOk \in BOOLEAN :
         LET vmRequest == req.vm[loc.idx]
         IN  IF ~connOk
             THEN /\ Return(TRUE, "", 0)
                  /\ UNCHANGED loc
             ELSE /\ loc' = [loc EXCEPT
                               !.vmConfigs = @ \o VmConfigs(vmRequest, loc.vmStartIndex),
                               !.vmStartIndex = @ + SubGroupSize(vmRequest),
                               !.idx = @ + 1]
                  /\ pc' = IF loc.idx = Len(req.vm) THEN "mci_objects" ELSE pc
                  /\ UNCHANGED ret
    /\ UNCHANGED <<kv, csp, req, kv0, worker, errorMu, op, del>>

NextCount == CountTotal \/ CountBuild

SpecCount == InitCount /\ [][NextCount]_vars

(* ------------------------------ properties ----------------------------- *)

\* the keys below the MCI key, and the MCI key
MciKeys(k) == [mci |-> k.mci.exists, vm |-> DOMAIN k.vm, subgroup |-> k.subgroup]

NoMciKeys == [mci |-> FALSE, vm |-> {}, subgroup |-> {}]

\* the VMs of a store that have a given status
WithStatus(k, status) == {v \in DOMAIN k.vm : k.vm[v].status = status}

\* a VM of the request failed in VM-object creation or in VM create
VmFailed ==
    \/ loc.vmObjectErrors # {}
    \/ loc.vmCreateErrors # {}
    \/ \E w \in DOMAIN worker : worker[w].pc \in {"object_error", "addVmError", "failed"}

\* C1: with policy rollback and a VM that failed in VM-object creation or
\* in VM create, CreateMci returns, it returns an error, and no key of the
\* MCI is left in the store.
RollbackLeavesNoKey ==
    (req.policy = PolicyRollback /\ VmFailed) =>
        IF ret.done THEN ret.err /\ MciKeys(kv) = NoMciKeys
        ELSE ENABLED Next

\* C2: with policy refine and k of the n requested VMs failed, the MCI
\* that CreateMci returns holds n - k VM records, none of them Failed.
RefineKeepsTheOthers ==
    (ret.done /\ ~ret.err /\ req.policy = PolicyRefine) =>
        /\ Cardinality(DOMAIN kv.vm) = SumSizes(req.vm) - ret.failedVmCount
        /\ WithStatus(kv, StatusFailed) = {}

\* C3: with policy continue and k of the n requested VMs failed, CreateMci
\* returns the MCI without error, n - k VMs are Running, the k failed VMs
\* are persisted as Failed, and failedVmCount is k.
ContinueKeepsTheFailed ==
    (ret.done /\ req.policy = PolicyContinue /\ (VmFailed \/ ~ret.err)) =>
        LET k == Cardinality(loc.vmObjectErrors \cup loc.vmCreateErrors)
        IN  /\ ~ret.err
            /\ Cardinality(WithStatus(kv, StatusRunning)) = SumSizes(req.vm) - k
            /\ Cardinality(WithStatus(kv, StatusFailed)) = k
            /\ ret.failedVmCount = k

\* the shared-resource reservation of CreateMciDynamic failed
ReservationFailed == \E i \in DOMAIN loc.resultChan : loc.resultChan[i].err

\* C4: when CreateMciDynamic fails in the shared-resource reservation and
\* its rollback reports no failure, the store holds the keys it held
\* before the call.
ReservationRollbackIsComplete ==
    (ret.done /\ ReservationFailed /\ ~loc.rollbackErr) =>
        /\ MciKeys(kv) = MciKeys(kv0)
        /\ DOMAIN kv.res = DOMAIN kv0.res

\* the shared resources that a VM record names
Referenced(vmInfo) ==
    {key \in {ResKey(StrSSHKey, vmInfo.sshKeyId), ResKey(StrVNet, vmInfo.vNetId)}
              \cup {ResKey(StrSecurityGroup, vmInfo.securityGroupIds[i])
                    : i \in DOMAIN vmInfo.securityGroupIds} :
        key[2] # ""}

\* every shared resource the VM record names exists and lists the VM
BackReferenced(res, vmInfo, vmKey) ==
    \A key \in Referenced(vmInfo) : key \in DOMAIN res /\ vmKey \in res[key].associated

RecordsHaveTheirMci ==
    (DOMAIN kv.vm # {} \/ kv.subgroup # {}) => kv.mci.exists

\* the statuses with which DelMcis is to accept the deletion
Deletable == {StatusTerminated, StatusUndefined, StatusFailed}

\* C8: DelMcis without option force returns no error exactly when every VM
\* of the MCI has a status in {Terminated, Undefined, Failed}, and when it
\* returns an error no key of the MCI has been deleted.
DelMcisAcceptsTheDeletable ==
    (op.name = "DelMcis" /\ op.option # "force" /\ kv0.mci.exists) =>
        /\ ~op.err <=> \A v \in DOMAIN op.status : op.status[v] \in Deletable
        /\ op.err => MciKeys(kv) = MciKeys(kv0)

\* the path of the statuses of a VM in a create
CreatePath == <<StatusPreparing, StatusPrepared, StatusCreating, StatusRunning>>

\* a status change along the path, or to Failed
Forward(old, new) ==
    \/ new = old
    \/ new = StatusFailed
    \/ \E i, j \in DOMAIN CreatePath : i < j /\ CreatePath[i] = old /\ CreatePath[j] = new

\* C9: in a create, every change of the persisted status of a VM goes
\* forward on the path Preparing, Prepared, Creating, Running, or to Failed.
StatusGoesForward ==
    [][\A v \in (DOMAIN kv.vm) \cap (DOMAIN kv'.vm) :
          Forward(kv.vm[v].status, kv'.vm[v].status)]_vars

\* C10: a VM record whose status is Terminated keeps that status for as
\* long as it exists.
TerminatedIsTerminal ==
    [][\A v \in (DOMAIN kv.vm) \cap (DOMAIN kv'.vm) :
          kv.vm[v].status = StatusTerminated => kv'.vm[v].status = StatusTerminated]_vars

\* the number of VMs of a result list that have a given status
CountOf(list, status) == Cardinality({id \in DOMAIN list : list[id] = status})

\* the statuses no other status is more frequent than
MostFrequent(list) ==
    {d \in Range(statusFlagStr) :
        \A e \in Range(statusFlagStr) : CountOf(list, e) <= CountOf(list, d)}

\* <status>:<count> (R:<r>/<n>)
Proportion(status, count, r, n) ==
    status \o ":" \o ToString(count) \o " (R:" \o ToString(r) \o "/" \o ToString(n) \o ")"

\* the status string the derivation rule gives a result list whose dominant
\* status is taken to be d
DerivedFrom(list, d) ==
    LET n == Cardinality(DOMAIN list)
        r == CountOf(list, StatusRunning)
        F == CountOf(list, StatusFailed)
    IN  IF F = n THEN Proportion("Failed", F, r, n)
        ELSE IF F > 0 THEN Proportion("Partial-Failed", F, r, n)
        ELSE IF CountOf(list, d) = n THEN Proportion(d, CountOf(list, d), r, n)
        ELSE Proportion("Partial-" \o d, CountOf(list, d), r, n)

StatusStringIsAFunction ==
    [][(/\ op.name = "GetMcisStatus" /\ ~op.err
        /\ op'.name = "GetMcisStatus" /\ ~op'.err
        /\ op'.status = op.status) => op'.mci = op.mci]_vars

\* a reconciling call has returned: GetMcisStatus, or the create request
Reconciled ==
    \/ op.name = "GetMcisStatus" /\ ~op.err
    \/ op.name = "" /\ ret.done /\ ~ret.err /\ kv.mci.exists

\* every VM record has target status Complete or status Terminated
AllVmsDone ==
    /\ DOMAIN kv.vm # {}
    /\ \A v \in DOMAIN kv.vm :
          kv.vm[v].targetStatus = StatusComplete \/ kv.vm[v].status = StatusTerminated

Posted(kind) == {w \in DOMAIN worker : kind \in Range(worker[w].posted)}

\* C14: of the reservations of one request that target the same namespace
\* and connection, at most one sends a create request for the shared
\* resource of each kind.
SharedResourceIsCreatedOnce ==
    \A i \in DOMAIN ReserveKinds : Cardinality(Posted(ReserveKinds[i])) <= 1

\* the goroutines that have called DelResource
Begun(kind) == {w \in OfKind(kind) : worker[w].pc \in {"acquired", "done"}}

\* every delete of the kind has returned, the last one gap seconds before t
FinishedBefore(kind, t, gap) ==
    \A u \in OfKind(kind) : worker[u].pc = "done" /\ worker[u].doneAt + gap <= t

\* C15: rollbackCreatedResources calls DelResource for a security group
\* only when every delete of an SSH key has returned, and for a vNet only
\* when every delete of an SSH key has returned and every delete of a
\* security group has returned at least five seconds before.
RollbackIsOrdered ==
    /\ \A w \in Begun(StrSecurityGroup) :
         FinishedBefore(StrSSHKey, worker[w].startAt, 0)
    /\ \A w \in Begun(StrVNet) :
         /\ FinishedBefore(StrSSHKey, worker[w].startAt, 0)
         /\ FinishedBefore(StrSecurityGroup, worker[w].startAt, 5)

\* a rollback of an SSH key, a security group and a vNet has returned
RollbackOfThreeKinds ==
    /\ pc = "done"
    /\ \A k \in Range(RollbackOrder) : Begun(k) # {}
    /\ DOMAIN kv.res = {}

\* C16: in every fan-out at most ten goroutines are in their body at a time.
AtMostTenWorkers == pc \in FanOuts => worker.running <= 10

\* a VM object or a VM create has been issued
VmWorkIssued == worker # <<>> \/ DOMAIN csp # {}

\* C17: with option hold CreateMci starts no VM-object creation and no VM
\* create before it has read continue from the hold map; when it reads
\* withdraw the MCI is deleted and the error returned with no VM create
\* issued.
HoldIsKept ==
    [][(req.option = "hold" /\ pc \in {"CreateMci", "mci_build", "mci_object", "mci_hold"}) =>
         /\ ~VmWorkIssued
         /\ VmWorkIssued' => loc.holdingMciMap = "continue"
         /\ (pc = "mci_hold" /\ loc.holdingMciMap = "withdraw" /\ pc' # pc) =>
              /\ ~kv'.mci.exists
              /\ ret'.done /\ ret'.err
              /\ ~VmWorkIssued']_vars

\* a held request was continued and has created a VM
HeldMciIsCreated ==
    /\ req.option = "hold"
    /\ ret.done /\ ~ret.err
    /\ \E v \in DOMAIN kv.vm : kv.vm[v].status = StatusRunning

\* the VMs of the request without an error of their own
OtherVms ==
    {loc.vmConfigs[i].id : i \in DOMAIN loc.vmConfigs}
        \ (loc.vmObjectErrors \cup loc.vmCreateErrors)

\* C18: with a policy other than rollback and a VM that failed in VM-object
\* creation or in VM create, CreateMci returns, it returns the MCI and no
\* error, and the create of every other VM was issued.
BatchIsNotAborted ==
    (req.policy # PolicyRollback /\ VmFailed) =>
        IF ret.done THEN ~ret.err /\ OtherVms \subseteq DOMAIN csp
        ELSE ENABLED Next

\* the recorder r takes a step of the call for an event of the given kind
Records(r, isSuccess) ==
    /\ r \in DOMAIN worker
    /\ worker'[r] # worker[r]
    /\ Head(worker[r].events).isSuccess = isSuccess

FailureCountGrows ==
    [][\A r \in 1..MaxRecorders :
         (Records(r, FALSE) /\ worker[r].pc = "save") =>
            kv'.log.failureCount >= kv.log.failureCount]_vars

\* C21: the log under the key of a spec has as many timestamps as its
\* failureCount and successCount add up to.
CountsMatchTimestamps ==
    kv.log.failureCount + kv.log.successCount
        = Len(kv.log.failureTimestamps) + Len(kv.log.successTimestamps)

\* a failure and a success have been recorded to one log
FailureAndSuccessRecorded ==
    /\ \A r \in DOMAIN worker : worker[r].pc = "done"
    /\ Len(kv.log.failureTimestamps) > 0
    /\ Len(kv.log.successTimestamps) > 0

\* the VMs of the request whose creation failed
FailedVms == loc.vmObjectErrors \cup loc.vmCreateErrors

\* C22: when a create has returned, the provisioning log of the spec counts
\* a failure for every VM whose creation failed, under every policy.
FailuresAreRecorded ==
    (ret.done /\ FailedVms # {}) => kv.log.failureCount >= Cardinality(FailedVms)

\* C23: when a create has returned the MCI and its provisioning log counts
\* a failure of a VM, the image of the VM is among the failed images of
\* the log.
FailureRecordsTheImage ==
    (ret.done /\ ~ret.err /\ kv.log.failureCount > 0) =>
        ImageId \in Range(kv.log.failureImages)

\* the failure rate of the log is at least num / den
RateAtLeast(num, den) ==
    kv.log.failureCount * den >= num * (kv.log.failureCount + kv.log.successCount)

\* the spec risk by its rule: high, otherwise medium, otherwise low
SpecRiskByRule ==
    IF Len(kv.log.failureImages) >= 10 \/ RateAtLeast(4, 5) THEN "high"
    ELSE IF \/ Len(kv.log.failureImages) >= 5
            \/ Len(kv.log.failureImages) >= 3 /\ Len(kv.log.successImages) = 0
            \/ RateAtLeast(1, 2)
         THEN "medium"
    ELSE "low"

\* C24: for a log with events the spec risk is high with ten failed images
\* or a failure rate of 0.8; otherwise medium with five failed images, with
\* three failed and no succeeded image, or a failure rate of 0.5; otherwise
\* low.
SpecRiskFollowsTheRule ==
    (pc = "done" /\ kv.log.exists) => ret.risk.specRisk.level = SpecRiskByRule

\* one level is at most the other
AtMost(a, b) == getRiskValue(a) <= getRiskValue(b)

\* the primary risk factor by its rule
FactorByRule(specLevel, imageLevel, isNew) ==
    IF specLevel = "low" /\ imageLevel = "low" THEN "none"
    ELSE IF isNew /\ specLevel # "low" THEN "combination"
    ELSE IF AtMost(imageLevel, specLevel) THEN "spec"
    ELSE "image"

\* C25: the overall level is the higher of the spec level and the image
\* level; the primary risk factor is the one with the higher level, spec
\* when the levels are equal, combination when the image is in neither list
\* of the log and the spec level is not low, none when both are low.
OverallIsTheMaximum ==
    pc = "done" =>
        LET risk == ret.risk
            isNew == /\ req.cspImageName \notin Range(kv.log.failureImages)
                     /\ req.cspImageName \notin Range(kv.log.successImages)
        IN  /\ risk.overallRisk.level \in {risk.specRisk.level, risk.imageRisk.level}
            /\ AtMost(risk.specRisk.level, risk.overallRisk.level)
            /\ AtMost(risk.imageRisk.level, risk.overallRisk.level)
            /\ risk.overallRisk.primaryRiskFactor
                  = FactorByRule(risk.specRisk.level, risk.imageRisk.level, isNew)

\* a new image was analysed against a spec of medium risk
CombinationIsNamed ==
    /\ pc = "done"
    /\ ret.risk.specRisk.level = "medium"
    /\ ret.risk.imageRisk.level = "low"
    /\ ret.risk.overallRisk.level = "medium"
    /\ ret.risk.overallRisk.primaryRiskFactor = "combination"

\* the log of scenario S5 was analysed with its failed image
ScenarioS5 ==
    /\ pc = "done"
    /\ kv.log = HistoryLog(1, 0, 1, 1, 0)
    /\ req.cspImageName = ImageName(1)

\* C26 as stated: in scenario S5 the overall level is high and the primary
\* risk factor is image.
S5NamesTheImage ==
    ScenarioS5 => /\ ret.risk.overallRisk.level = "high"
                  /\ ret.risk.overallRisk.primaryRiskFactor = "image"

\* C26: in scenario S5 the spec level and the image level are both high,
\* the overall level is high and the primary risk factor is spec.
S5NamesTheSpec ==
    ScenarioS5 => /\ ret.risk.specRisk.level = "high"
                  /\ ret.risk.imageRisk.level = "high"
                  /\ ret.risk.overallRisk.level = "high"
                  /\ ret.risk.overallRisk.primaryRiskFactor = "spec"

\* scenario S5 was analysed and the overall level is high
S5IsHigh == ScenarioS5 /\ ret.risk.overallRisk.level = "high"

\* C27: a review changes nothing: for every request and every stored state
\* the key-value store after the review equals the store before it.
ReviewLeavesTheStore == pc = "reviewed" => kv = kv0

\* the risk verdict of the analysis for the spec and the image of the
\* request, on the log the store held when the request arrived
RiskVerdict ==
    AnalyzeProvisioningRiskDetailed(GetProvisioningLog(kv0).log, ImageId).overallRisk.level

\* a shared resource or a VM of the request exists
SomethingCreated ==
    \/ DOMAIN csp # {}
    \/ DOMAIN kv.res # DOMAIN kv0.res
    \/ \E w \in DOMAIN worker : worker[w].posted # <<>>

\* C28: a dynamic create whose risk verdict is high is refused with an
\* error before any shared resource or VM is created.
HighRiskIsRefused ==
    (req.entry = "dynamic" /\ RiskVerdict = "high") =>
        /\ ~SomethingCreated
        /\ ret.done => ret.err

\* the requests of the call to a path, by their position among all
RequestsTo(path) == {i \in DOMAIN worker : worker[i].path = path}

\* the status read is repeated only after an empty status, at most twice,
\* five seconds after the request before
StatusReadIsRetried ==
    /\ Cardinality(RequestsTo(GetVmStatus)) <= 3
    /\ \A i \in RequestsTo(GetVmStatus) :
          i > 1 => /\ worker[i - 1].reply = ""
                   /\ worker[i].at = worker[i - 1].at + 5

\* an error of the status read is the last request of the call and the
\* call returns an error
StatusReadErrorSurfaces ==
    \A i \in RequestsTo(GetVmStatus) :
        worker[i].reply = "error" => /\ i = Len(worker)
                                     /\ ret.done => ret.err

\* no other request is sent a second time
NoOtherRequestIsRetried ==
    \A path \in {PostDisk, PutDiskAttach} : Cardinality(RequestsTo(path)) <= 1

\* C29: a status read is repeated only when the answer carries an empty
\* status, at most twice in a call of FetchVmStatus (three requests), five
\* seconds apart; an error of the request is not retried and the call
\* returns it; no other CSP request is repeated.
OnlyStatusReadsAreRetried ==
    /\ StatusReadIsRetried
    /\ StatusReadErrorSurfaces
    /\ NoOtherRequestIsRetried

\* the listed versions whose filtered form begins with the filtered form
\* of the version asked for; all of them when none is asked for
Candidates ==
    {v \in Range(kv.availableVersion) :
        HasPrefix(FilterDigitsAndDots(v), FilterDigitsAndDots(req.version))}

\* one string is at most the other in the order of strings
RECURSIVE LexAtMost(_, _)
LexAtMost(s, t) ==
    IF s = <<>> THEN TRUE
    ELSE IF t = <<>> THEN FALSE
    ELSE IF Head(s) # Head(t) THEN Ord(Head(s)) < Ord(Head(t))
    ELSE LexAtMost(Tail(s), Tail(t))

\* C30: the version recommended is a listed version whose filtered form
\* begins with the filtered form of the version asked for, and no other
\* such version is higher in the order of strings; when no version is
\* asked for it is the highest of all listed versions.
HighestVersionIsRecommended ==
    (pc = "done" /\ ~ret.err) =>
        /\ ret.version \in Candidates
        /\ \A v \in Candidates :
              LexAtMost(FilterDigitsAndDots(v), FilterDigitsAndDots(ret.version))

\* the callers that went on after the check of the name
Proceeding == {i \in DOMAIN worker : worker[i].pc \notin {"CreateMciDynamic", "rejected"}}

\* C31: of the concurrent calls of CreateMciDynamic with one namespace and
\* MCI name at most one goes on to provision, and the MCI record and the
\* VM records in the store are those of that one caller.
MciNameIsUnique ==
    /\ Cardinality(Proceeding) <= 1
    /\ kv.mci.exists => \A v \in DOMAIN kv.vm : kv.vm[v].uid = kv.mci.uid

\* C32: while CreateMci is in the fan-out that creates the VM objects some
\* step is always possible: every worker finishes, also one whose VM
\* object failed, and the wait returns; none waits for the mutex of the
\* error lists for ever.
ObjectFanOutReturns ==
    pc = "mci_objects" =>
        /\ ENABLED Next
        /\ \A w \in DOMAIN worker : worker[w].pc # "addVmError"

\* the VM records left in the status of the preparation
LeftInPreparation ==
    {v \in DOMAIN kv.vm : kv.vm[v].status \in {StatusPreparing, StatusPrepared}}

\* C33: after a dynamic create that returned the MCI with no failed VM,
\* in whatever order the reservations of the sub-groups finished, no VM
\* record is left in Preparing or Prepared and the MCI has as many VM
\* records as the request has VMs.
ProvisionedVmsArePrepared ==
    (req.entry = "dynamic" /\ ret.done /\ ~ret.err /\ ret.failedVmCount = 0) =>
        /\ LeftInPreparation = {}
        /\ Cardinality(DOMAIN kv.vm) = TotalVmCount(req.vm)

\* C34: while the VMs are created, every VM for which CreateVm has
\* returned an error is persisted with the status Failed, never left in
\* Creating.
CreateErrorMarksFailed ==
    pc = "mci_create" =>
        \A id \in loc.vmCreateErrors :
            id \in DOMAIN kv.vm => kv.vm[id].status = StatusFailed

\* the VM record FetchVmStatus read, and the native status of its call:
\* the last answer of the CSP, Undefined without an answer
FetchedVm == kv0.vm[RetryVm]

NativeStatus ==
    IF worker = <<>> \/ worker[Len(worker)].reply = "error" THEN StatusUndefined
    ELSE worker[Len(worker)].reply

\* a call of FetchVmStatus has returned a status
StatusFetched == op.name = "FetchVmStatus" /\ pc = "done" /\ ~ret.err

\* the native status after the whitelist and the corrections by target
\* action
CorrectedByAction(targetAction, nativeStatus) ==
    LET s == IF nativeStatus \in {StatusCreating, StatusRunning, StatusSuspending,
                                  StatusSuspended, StatusResuming, StatusRebooting,
                                  StatusTerminating, StatusTerminated}
             THEN nativeStatus ELSE StatusUndefined
    IN  IF targetAction = ActionCreate /\ s = StatusUndefined THEN StatusCreating
        ELSE IF targetAction = ActionTerminate /\ s = StatusUndefined
        THEN StatusTerminated
        ELSE IF targetAction = ActionTerminate /\ s = StatusSuspending
        THEN StatusTerminating
        ELSE IF targetAction = ActionResume /\ s \in {StatusUndefined, StatusCreating}
        THEN StatusResuming
        ELSE IF targetAction = ActionReboot
                /\ s \in {StatusSuspending, StatusSuspended, StatusCreating,
                           StatusResuming, StatusUndefined}
        THEN StatusRebooting
        ELSE s

\* C35 as stated: the status FetchVmStatus returns is the native status
\* after the whitelist and the corrections by target action, and nothing
\* else.
OnlyActionCorrections ==
    StatusFetched => ret.status = CorrectedByAction(FetchedVm.targetAction, NativeStatus)

\* C35: the status FetchVmStatus returns is the native status after the
\* whitelist and the corrections by target action, except that under
\* Create a VM persisted as Failed is returned as Failed.
ActionCorrectionsAndFailed ==
    StatusFetched =>
        ret.status = IF FetchedVm.targetAction = ActionCreate
                        /\ FetchedVm.status = StatusFailed
                     THEN StatusFailed
                     ELSE CorrectedByAction(FetchedVm.targetAction, NativeStatus)

\* a VM under reboot that the CSP reports as Suspended was returned as
\* Rebooting
SuspendedUnderReboot ==
    /\ StatusFetched
    /\ FetchedVm.targetAction = ActionReboot
    /\ NativeStatus = StatusSuspended
    /\ ret.status = StatusRebooting

\* FetchVmStatus found the status of the VM equal to its target status
ReachedTarget == StatusFetched /\ ret.status = FetchedVm.targetStatus

OneStatusEntryPerVm ==
    (op.name = "GetMcisStatus" /\ ~op.err) => op.vm = DOMAIN op.status

\* the requests that have reserved their resources and not yet created
\* their VM
AboutToReference == {i \in DOMAIN worker : worker[i].pc \in {"get", "check", "post",
                                                              "collect", "CreateMci"}}

\* C38: the rollback of a failed request removes only shared resources the
\* request itself created, never one that was there before the call and
\* never one a concurrent request on the connection has found present and
\* is about to reference.
RollbackRemovesOnlyItsOwn ==
    [][\A key \in DOMAIN kv.res \ DOMAIN kv'.res :
         /\ \E i \in DOMAIN worker :
              worker[i].pc = "rollback" /\ key \in Range(worker[i].created)
         /\ key \notin DOMAIN kv0.res
         /\ \A j \in AboutToReference : key \notin worker[j].found]_vars

\* C39: when CreateMci with policy rollback has force-deleted a partially
\* created MCI and returned, no VM that was created at the CSP is left
\* running without a VM record: it was terminated at the CSP before its
\* record was removed.
RolledBackVmsAreTerminated ==
    (ret.done /\ ret.err /\ req.policy = PolicyRollback) =>
        \A v \in DOMAIN csp : csp[v] = StatusRunning => v \in DOMAIN kv.vm

\* the sum of the subGroupSize values of a request, a missing one counting
\* as 1
RECURSIVE DeclaredSum(_)
DeclaredSum(vmReqs) ==
    IF vmReqs = <<>> THEN 0
    ELSE (IF Head(vmReqs).subGroupSize = "" THEN 1
          ELSE Atoi(Head(vmReqs).subGroupSize).n)
         + DeclaredSum(Tail(vmReqs))

\* C40: totalVmCount is the number of VM objects the request is expanded
\* into, for every value of subGroupSize, and it is the sum of the
\* subGroupSize values (a missing one counting as 1) where they are numbers.
TotalVmCountIsTheVmCount ==
    pc = "mci_objects" =>
        /\ loc.totalVmCount = Len(loc.vmConfigs)
        /\ (\A i \in DOMAIN req.vm :
               req.vm[i].subGroupSize = "" \/ ~Atoi(req.vm[i].subGroupSize).err)
             => loc.totalVmCount = DeclaredSum(req.vm)

====
